---- MODULE Spec2Model ----
(***************************************************************************)
(* A model of the macro expander of mcpy / mcpyrate:                       *)
(*   src/mcpy/expander.py  MacroExpander, MacroCollector, expand_macros,   *)
(*                         find_macros and the helpers below them          *)
(*   src/mcpy/visitors.py  BaseMacroExpander                               *)
(* Abstract syntax trees are records tagged by their node class in field   *)
(* k.  A located node carries lineno (0: the attribute is absent) and      *)
(* col_offset (-1: the attribute is absent).  Python's None is the record  *)
(* NoneV, a Python list that stands where a node is expected is ListV.     *)
(***************************************************************************)
EXTENDS Integers, Sequences, FiniteSets, TLC

\* ------------------------------------------------------------------ bounds
\* Depth of nested macro expansions after which the host raises RecursionError.
MaxDepth == 3
\* How many times expand_macros may be run on the same module in one behaviour.
MaxRuns == 2
\* Longest decorator list, longest list of context items, longest module body with
\* import statements.
MaxDecorators == 2
MaxItems == 2
MaxBody == 2
MaxLines == 2
MaxRounds == 4
MaxModules == 4
MaxPhase == 2
MaxCalls == 3
MaxSteps == 4
MaxStatements == 3
RecursionLimit == 4

\* ------------------------------------------------------------------ values
\* lineno / col_offset of a node that lacks the attribute (hasattr is false)
NoLine == 0
NoCol == -1

NoneV == [k |-> "None"]
ListV(s) == [k |-> "List", elts |-> s]

Name(id, l, c) == [k |-> "Name", id |-> id, lineno |-> l, col_offset |-> c]
Constant(v, l, c) == [k |-> "Constant", v |-> v, lineno |-> l, col_offset |-> c]
Subscript(value, slice, l, c) ==
  [k |-> "Subscript", value |-> value, slice |-> slice, lineno |-> l, col_offset |-> c]
Expr(value, l, c) == [k |-> "Expr", value |-> value, lineno |-> l, col_offset |-> c]
withitem(e) == [k |-> "withitem", context_expr |-> e]
With(items, body, l, c) ==
  [k |-> "With", items |-> items, body |-> body, lineno |-> l, col_offset |-> c]
FunctionDef(decos, body, l, c) ==
  [k |-> "FunctionDef", decorator_list |-> decos, body |-> body, lineno |-> l, col_offset |-> c]
ClassDef(decos, body, l, c) ==
  [k |-> "ClassDef", decorator_list |-> decos, body |-> body, lineno |-> l, col_offset |-> c]
Module(body) == [k |-> "Module", body |-> body, type_ignores |-> <<>>]
Done(body) == [k |-> "Done", body |-> body]

IsList(v) == v.k = "List"
IsNone(v) == v.k = "None"
IsAST(v) == v.k \notin {"List", "None"}
Located == {"Name", "Constant", "Subscript", "Expr", "With", "FunctionDef", "ClassDef",
            "Import", "ImportFrom"}
IsDef(v) == v.k \in {"FunctionDef", "ClassDef"}

\* ------------------------------------------------------------------ ast helpers
RECURSIVE Visit(_, _, _, _), VisitSeq(_, _, _, _), MapVisit(_, _, _, _)
RECURSIVE VisitField(_, _, _, _), generic_visit(_, _, _, _)
RECURSIVE DecoLoop(_, _, _, _, _), _fix(_, _, _), _fixSeq(_, _, _)
RECURSIVE global_postprocess(_), PostSeq(_)

Reverse(s) == [i \in 1..Len(s) |-> s[Len(s) + 1 - i]]

\* A faulty variant of copy_location: the new node keeps what it has.
copy_locationKeepingNew(new, old) == new

\* ast.copy_location: every location attribute the old node has is copied over.
copy_location(new, old) ==
  IF new.k \in Located /\ old.k \in Located
  THEN [new EXCEPT !.lineno = IF old.lineno # NoLine THEN old.lineno ELSE @,
                   !.col_offset = IF old.col_offset # NoCol THEN old.col_offset ELSE @]
  ELSE new

\* ast.fix_missing_locations: a node without lineno / col_offset gets the one of
\* the nearest enclosing node that has it, (1, 0) at the root.
_fix(n, lineno, col) ==
  IF ~IsAST(n) THEN n
  ELSE
    LET l == IF n.k \in Located /\ n.lineno # NoLine THEN n.lineno ELSE lineno
        c == IF n.k \in Located /\ n.col_offset # NoCol THEN n.col_offset ELSE col
        m == IF n.k \in Located THEN [n EXCEPT !.lineno = l, !.col_offset = c] ELSE n
        \* iter_child_nodes: a field that is a node, or the nodes of a field that is a list
        Child(v) == IF IsList(v) THEN ListV(_fixSeq(v.elts, l, c)) ELSE _fix(v, l, c)
    IN CASE m.k = "Subscript" -> [m EXCEPT !.value = Child(@), !.slice = Child(@)]
         [] m.k = "Expr" -> [m EXCEPT !.value = Child(@)]
         [] m.k = "withitem" -> [m EXCEPT !.context_expr = Child(@)]
         [] m.k = "With" -> [m EXCEPT !.items = _fixSeq(@, l, c), !.body = _fixSeq(@, l, c)]
         [] IsDef(m) -> [m EXCEPT !.body = _fixSeq(@, l, c),
                                  !.decorator_list = _fixSeq(@, l, c)]
         [] m.k = "Module" -> [m EXCEPT !.body = _fixSeq(@, l, c)]
         [] m.k = "Done" -> [m EXCEPT !.body = Child(@)]
         [] OTHER -> m

_fixSeq(s, lineno, col) == [i \in 1..Len(s) |-> _fix(s[i], lineno, col)]

fix_missing_locations(n) == _fix(n, 1, 0)

\* ------------------------------------------------------------------ macro functions
\* A macro function is user code; the model draws it from these behaviours.
\*   same   return the argument tree
\*   none   return None
\*   fresh  return a new node without location info
\*   emit   return a new bare identifier naming the other macro
\*   loop   return a new expr invocation of itself
\*   list   return a list: the argument followed by a new node
Behaviours == {"same", "none", "fresh", "emit", "loop", "list"}
MacroNames == {"a", "b"}
Other(name) == IF name = "a" THEN "b" ELSE "a"
Fresh == Constant("new", NoLine, NoCol)

_apply_macro(name, macro, tree, syntax) ==
  CASE macro.ret = "same" -> tree
    [] macro.ret = "none" -> NoneV
    [] macro.ret = "fresh" -> Fresh
    [] macro.ret = "emit" -> Name(Other(name), NoLine, NoCol)
    [] macro.ret = "loop" -> Subscript(Name(name, NoLine, NoCol), Fresh, NoLine, NoCol)
    [] macro.ret = "list" ->
         IF IsList(tree) THEN ListV(tree.elts \o <<Fresh>>) ELSE ListV(<<tree, Fresh>>)

\* A faulty variant of isnamemacro: every macro function passes.
isnamemacroAlways(function) == TRUE

\* namemacro sets the attribute _isnamemacro; isnamemacro tests for it.
isnamemacro(function) == function.nm

ismacroname(name, B) == name \in DOMAIN B

\* ------------------------------------------------------------------ results
\* What a visit yields: the value it returns, the macro invocations it made (in
\* order), the exception that ended it ("" when none) and how many nodes the
\* NodeTransformer dispatched on.
OK(t) == [t |-> t, log |-> <<>>, err |-> "", nv |-> 0]
Raise(e, log, nv) == [t |-> NoneV, log |-> log, err |-> e, nv |-> nv]
Failed(r) == r.err # ""

\* ------------------------------------------------------------------ BaseMacroExpander
\* One macro invocation, as the macro function saw it: the macro's name, the syntax
\* it was invoked with, the invocation node, the argument tree, what the macro
\* returned and what _visit_expansion made of that; recursive is self.recursive
\* as it was while the macro function ran.
Invocation(name, syntax, target, tree, ret, out, rec) ==
  [name |-> name, syntax |-> syntax, target |-> target, tree |-> tree, ret |-> ret,
   out |-> out, recursive |-> rec]

\* Two steps in sequence: the second runs only if the first raised nothing; the
\* invocations and the dispatch counts add up, t is the value of the whole.
Then(r1, r2, t) ==
  IF Failed(r1) THEN r1
  ELSE IF Failed(r2) THEN Raise(r2.err, r1.log \o r2.log, r1.nv + r2.nv)
  ELSE [t |-> t, log |-> r1.log \o r2.log, err |-> "", nv |-> r1.nv + r2.nv]

\* The value of a step replaced by f of it.
Returning(r, t) == IF Failed(r) THEN r ELSE [r EXCEPT !.t = t]

\* map(self.visit, expansion): the results are kept as they come, None and lists too.
MapCons(h, r) == Then(h, r, <<h.t>> \o r.t)

MapVisit(s, rec, d, B) ==
  IF s = <<>> THEN OK(<<>>)
  ELSE MapCons(Visit(Head(s), rec, d, B), MapVisit(Tail(s), rec, d, B))

\* list(expansion).pop() if is_node else list(expansion)
Unwrap(r, is_node) == Returning(r, IF is_node THEN r.t[1] ELSE ListV(r.t))

\* The nodes of an expansion, each with the location of the invocation copied
\* over it and the missing locations below it filled in.
PlaceExpansion(elts, target) ==
  [i \in 1..Len(elts) |-> fix_missing_locations(copy_location(elts[i], target))]

\* A faulty variant of the recursion of _visit_expansion: the expansion is never
\* visited, whatever self.recursive says.
VisitPlacedNever(elts, is_node, rec, d, B) == OK(IF is_node THEN elts[1] ELSE ListV(elts))

VisitPlaced(elts, is_node, rec, d, B) ==
  IF ~rec THEN OK(IF is_node THEN elts[1] ELSE ListV(elts))
  ELSE IF d >= MaxDepth THEN Raise("RecursionError", <<>>, 0)
  ELSE Unwrap(MapVisit(elts, rec, d + 1, B), is_node)

ExpansionElts(expansion) == IF IsAST(expansion) THEN <<expansion>> ELSE expansion.elts

_visit_expansion(expansion, target, rec, d, B) ==
  IF IsNone(expansion) THEN OK(NoneV)
  ELSE IF \E i \in 1..Len(ExpansionElts(expansion)) : ~IsAST(ExpansionElts(expansion)[i])
  THEN Raise("AttributeError", <<>>, 0)
  ELSE VisitPlaced(PlaceExpansion(ExpansionElts(expansion), target), IsAST(expansion),
                   rec, d, B)

Invoked(r, macroname, syntax, target, tree, expansion, rec) ==
  [r EXCEPT !.log = <<Invocation(macroname, syntax, target, tree, expansion, r.t, rec)>> \o @]

\* BaseMacroExpander._expand, called as self.expand by MacroExpander.
expandWith(expansion, syntax, target, macroname, tree, rec, d, B) ==
  Invoked(_visit_expansion(expansion, target, rec, d, B),
          macroname, syntax, target, tree, expansion, rec)

expand(syntax, target, macroname, tree, rec, d, B) ==
  expandWith(_apply_macro(macroname, B[macroname], tree, syntax),
             syntax, target, macroname, tree, rec, d, B)

\* NodeTransformer.generic_visit on a field that holds a list: None drops the
\* item, a list is spliced in, what is no node is kept.
Splice(v) == IF IsNone(v) THEN <<>> ELSE IF IsList(v) THEN v.elts ELSE <<v>>
SeqCons(h, r) == Then(h, r, Splice(h.t) \o r.t)

VisitSeq(s, rec, d, B) ==
  IF s = <<>> THEN OK(<<>>)
  ELSE IF ~IsAST(Head(s)) THEN SeqCons(OK(ListV(<<Head(s)>>)), VisitSeq(Tail(s), rec, d, B))
  ELSE SeqCons(Visit(Head(s), rec, d, B), VisitSeq(Tail(s), rec, d, B))

\* NodeTransformer.generic_visit on one field: a node is visited and replaced (None
\* deletes the attribute), a list is visited element by element.
AsList(r) == Returning(r, ListV(r.t))

VisitField(v, rec, d, B) ==
  IF IsNone(v) THEN OK(v)
  ELSE IF IsList(v) THEN AsList(VisitSeq(v.elts, rec, d, B))
  ELSE Visit(v, rec, d, B)


\* The fields of a node in the order of _fields, each a list (TRUE) or not.
Fields(n) ==
  CASE n.k = "Expr" -> <<n.value>>
    [] n.k = "withitem" -> <<n.context_expr>>
    [] n.k = "Module" -> <<ListV(n.body)>>
    [] n.k = "Subscript" -> <<n.value, n.slice>>
    [] n.k = "With" -> <<ListV(n.items), ListV(n.body)>>
    [] IsDef(n) -> <<ListV(n.body), ListV(n.decorator_list)>>   \* body comes first
    [] OTHER -> <<>>

\* setattr / old_value[:] = new_values for each field
SetFields(n, r) ==
  Returning(r,
    CASE n.k = "Expr" -> [n EXCEPT !.value = r.t[1]]
      [] n.k = "withitem" -> [n EXCEPT !.context_expr = r.t[1]]
      [] n.k = "Module" -> [n EXCEPT !.body = r.t[1].elts]
      [] n.k = "Subscript" -> [n EXCEPT !.value = r.t[1], !.slice = r.t[2]]
      [] n.k = "With" -> [n EXCEPT !.items = r.t[1].elts, !.body = r.t[2].elts]
      [] IsDef(n) -> [n EXCEPT !.body = r.t[1].elts, !.decorator_list = r.t[2].elts]
      [] OTHER -> n)

RECURSIVE VisitFields(_, _, _, _)
VisitFields(fs, rec, d, B) ==
  IF fs = <<>> THEN OK(<<>>)
  ELSE MapCons(VisitField(Head(fs), rec, d, B), VisitFields(Tail(fs), rec, d, B))

generic_visit(n, rec, d, B) == SetFields(n, VisitFields(Fields(n), rec, d, B))

\* ------------------------------------------------------------------ MacroExpander
\* The dummy node of _add_coverage_dummy_node: Expr(Constant(None)), each with the
\* location attributes the target has.
CoverageDummy(target) ==
  copy_location(Expr(copy_location(Constant("None", NoLine, NoCol), target), NoLine, NoCol),
                target)

_add_coverage_dummy_node(tree, target) ==
  IF target.lineno = NoLine /\ target.col_offset = NoCol THEN tree
  ELSE LET l == IF IsNone(tree) THEN <<>> ELSE IF IsAST(tree) THEN <<tree>> ELSE tree.elts
       IN ListV(<<Done(CoverageDummy(target))>> \o l)

visit_Subscript(subscript, rec, d, B) ==
  IF IsNone(subscript.value) THEN Raise("AttributeError", <<>>, 0)   \* a deleted attribute
  ELSE IF subscript.value.k = "Name" /\ ismacroname(subscript.value.id, B)
  THEN IF IsNone(subscript.slice)
       THEN Raise("AttributeError", <<>>, 0)   \* subscript.slice.value is gone
       ELSE expand("expr", subscript, subscript.value.id, subscript.slice, rec, d, B)
  ELSE generic_visit(subscript, rec, d, B)

WithDummy(r, withstmt) == Returning(r, _add_coverage_dummy_node(r.t, withstmt))

visit_With(withstmt, rec, d, B) ==
  IF withstmt.items = <<>> THEN Raise("IndexError", <<>>, 0)
  ELSE IF IsNone(withstmt.items[1].context_expr) THEN Raise("AttributeError", <<>>, 0)
  ELSE IF withstmt.items[1].context_expr.k = "Name"
          /\ ismacroname(withstmt.items[1].context_expr.id, B)
  THEN WithDummy(expand("block", withstmt, withstmt.items[1].context_expr.id,
                        ListV(withstmt.body), rec, d, B),
                 withstmt)
  ELSE generic_visit(withstmt, rec, d, B)

\* A faulty variant of _detect_decorator_macros: the decorators that are no macros
\* are forgotten.
_detect_decorator_macrosOnly(decorator_list, B) ==
  [macros |-> SelectSeq(decorator_list, LAMBDA dd : dd.k = "Name" /\ ismacroname(dd.id, B)),
   others |-> <<>>]

\* _detect_decorator_macros: (macros, others), the order kept within each.
IsDecoratorMacro(dd, B) == dd.k = "Name" /\ ismacroname(dd.id, B)
_detect_decorator_macros(decorator_list, B) ==
  [macros |-> SelectSeq(decorator_list, LAMBDA dd : IsDecoratorMacro(dd, B)),
   others |-> SelectSeq(decorator_list, LAMBDA dd : ~IsDecoratorMacro(dd, B))]

\* A faulty variant of the loop order: outermost first.
DecoratorOrderOutermostFirst(macros) == macros

\* The order in which _visit_Decorated applies the macros of a decorator list.
DecoratorOrder(macros) == Reverse(macros)

\* The definition object after a decorator macro ran on it and its output was
\* visited.  NodeTransformer works in place: when the macro's output contains the
\* definition object itself, the object the next macro gets has been visited.
DecoratedAfter(macro, decorated, new_tree) ==
  CASE macro.ret = "same" /\ IsAST(new_tree) -> new_tree
    [] macro.ret = "list" /\ IsList(new_tree) -> new_tree.elts[1]
    [] OTHER -> decorated

\* The argument tree the next decorator macro of the loop is given.
NextDecoratorArg(macro, decorated, new_tree) == DecoratedAfter(macro, decorated, new_tree)

\* for macro in reversed(macros): new_tree = self.expand(...); break on None.
\* Yields new_tree and the macros executed.
LoopResult(r, q, macro) ==
  Then(r, q, [new_tree |-> q.t.new_tree, executed |-> <<macro>> \o q.t.executed])

LoopStep(r, ms, decorated, rec, d, B) ==
  IF Failed(r) \/ IsNone(r.t) \/ Len(ms) = 1
  THEN Returning(r, [new_tree |-> r.t, executed |-> <<Head(ms)>>])
  ELSE LoopResult(r,
                  DecoLoop(Tail(ms), NextDecoratorArg(B[Head(ms).id], decorated, r.t),
                           rec, d, B),
                  Head(ms))

DecoLoop(ms, decorated, rec, d, B) ==
  LoopStep(expand("decorator", decorated, Head(ms).id, decorated, rec, d, B),
           ms, decorated, rec, d, B)

RECURSIVE AddDummies(_, _)
AddDummies(tree, executed) ==
  IF executed = <<>> THEN tree
  ELSE AddDummies(_add_coverage_dummy_node(tree, Head(executed)), Tail(executed))

LoopDummies(r) == Returning(r, AddDummies(r.t.new_tree, r.t.executed))

VisitDetected(det, decorated, rec, d, B) ==
  IF det.macros # <<>>
  THEN LoopDummies(DecoLoop(DecoratorOrder(det.macros), decorated, rec, d, B))
  ELSE generic_visit(decorated, rec, d, B)

_visit_Decorated(decorated, rec, d, B) ==
  VisitDetected(_detect_decorator_macros(decorated.decorator_list, B),
                [decorated EXCEPT !.decorator_list =
                   _detect_decorator_macros(decorated.decorator_list, B).others],
                rec, d, B)

\* A faulty variant of ismodified: every output counts as modified.
ismodifiedAlways(tree, macroname) == TRUE

\* ismodified of visit_Name: anything but a Name with the macro's own id.
ismodified(tree, macroname) == ~(tree.k = "Name" /\ tree.id = macroname)

After(r, q) == Then(r, q, q.t)

\* What visit_Name does with the macro's output in recursive mode.
NameExpanded(r, macroname, rec, d, B) ==
  IF Failed(r) \/ ~rec \/ IsNone(r.t) THEN r
  ELSE IF ~ismodified(r.t, macroname) THEN Returning(r, Done(r.t))
  ELSE IF d >= MaxDepth THEN Raise("RecursionError", r.log, r.nv)
  ELSE After(r, Visit(r.t, rec, d + 1, B))

visit_Name(name, rec, d, B) ==
  IF ismacroname(name.id, B) /\ isnamemacro(B[name.id])
  THEN NameExpanded(expand("name", name, name.id, name, FALSE, d, B), name.id, rec, d, B)
  ELSE generic_visit(name, rec, d, B)

Dispatched(r) == [r EXCEPT !.nv = @ + 1]

\* BaseMacroExpander.visit: no bindings, no visit; else NodeTransformer.visit, which
\* dispatches on the class of the node (a list or None has no _fields).
Visit(tree, rec, d, B) ==
  IF DOMAIN B = {} THEN OK(tree)
  ELSE IF ~IsAST(tree) THEN Raise("AttributeError", <<>>, 0)
  ELSE Dispatched(CASE tree.k = "Subscript" -> visit_Subscript(tree, rec, d, B)
                    [] tree.k = "With" -> visit_With(tree, rec, d, B)
                    [] IsDef(tree) -> _visit_Decorated(tree, rec, d, B)
                    [] tree.k = "Name" -> visit_Name(tree, rec, d, B)
                    [] tree.k = "Done" -> OK(tree)
                    [] OTHER -> generic_visit(tree, rec, d, B))

\* BaseMacroExpander.visit_once: one layer, the mode restored afterwards.
visit_once(tree, B) == Visit(tree, FALSE, 0, B)

\* The services handed to a macro function, called by it while the expander
\* is in mode rec: what the call returns and the mode it leaves behind.
Service(r, rec) == [r |-> r, recursive |-> rec]

\* kw['expand_macros'] = self.visit
kw_expand_macros(tree, rec, B) == Service(Visit(tree, rec, 0, B), rec)

\* kw['expand_once'] = self.visit_once: oldrec = self.recursive, then
\* self.recursive = False for the visit, then self.recursive = oldrec
kw_expand_once(tree, oldrec, B) == Service(Visit(tree, FALSE, 0, B), oldrec)

\* global_postprocess: the expander's markers are deleted, their bodies stay.
global_postprocess(n) ==
  LET Child(v) == IF IsList(v) THEN ListV(PostSeq(v.elts)) ELSE global_postprocess(v)
  IN CASE n.k = "Done" -> Child(n.body)
       [] n.k = "List" -> ListV(PostSeq(n.elts))
       [] n.k = "Subscript" -> [n EXCEPT !.value = Child(@), !.slice = Child(@)]
       [] n.k = "Expr" -> [n EXCEPT !.value = Child(@)]
       [] n.k = "withitem" -> [n EXCEPT !.context_expr = Child(@)]
       [] n.k = "With" -> [n EXCEPT !.items = PostSeq(@), !.body = PostSeq(@)]
       [] IsDef(n) -> [n EXCEPT !.body = PostSeq(@), !.decorator_list = PostSeq(@)]
       [] n.k = "Module" -> [n EXCEPT !.body = PostSeq(@)]
       [] OTHER -> n

PostSeq(s) == [i \in 1..Len(s) |-> global_postprocess(s[i])]

Postprocessed(r) == Returning(r, global_postprocess(r.t))

expand_macros(tree, B) == Postprocessed(Visit(tree, TRUE, 0, B))

\* ------------------------------------------------------------------ MacroCollector
RECURSIVE CVisit(_, _), CVisitSeq(_, _), Cgeneric_visit(_, _)
RECURSIVE ExpanderDetects(_, _)

CEmpty == [collected |-> {}, err |-> ""]
CJoin(r1, r2) == [collected |-> r1.collected \cup r2.collected, err |-> r2.err]

\* for node in value: self.visit(node), stopped by the first exception
CVisitSeq(s, B) ==
  IF s = <<>> THEN CEmpty
  ELSE LET h == CVisit(Head(s), B)
       IN IF h.err # "" THEN h ELSE CJoin(h, CVisitSeq(Tail(s), B))

\* NodeVisitor.generic_visit: the nodes among the fields and among the items of
\* the fields that are lists.
Cgeneric_visit(n, B) ==
  LET Field(v) == IF IsList(v) THEN CVisitSeq(SelectSeq(v.elts, IsAST), B)
                  ELSE IF IsNone(v) THEN CEmpty ELSE CVisit(v, B)
      Items(q) == CVisitSeq(SelectSeq(q, IsAST), B)
      Both(r1, r2) == IF r1.err # "" THEN r1 ELSE CJoin(r1, r2)
  IN CASE n.k = "Expr" -> Field(n.value)
       [] n.k = "withitem" -> Field(n.context_expr)
       [] n.k = "Done" -> Field(n.body)
       [] n.k = "Module" -> Items(n.body)
       [] n.k = "Subscript" -> Both(Field(n.value), Field(n.slice))
       [] n.k = "With" -> Both(Items(n.items), Items(n.body))
       [] IsDef(n) -> Both(Items(n.body), Items(n.decorator_list))
       [] OTHER -> CEmpty

CollectorVisit_Subscript(subscript, B) ==
  LET rootdir == subscript.value
      found == IF rootdir.k = "Name" /\ ismacroname(rootdir.id, B)
               THEN {<<rootdir.id, "expr">>} ELSE {}
      r == IF IsNone(subscript.slice) \/ IsNone(rootdir)
           THEN [collected |-> {}, err |-> "AttributeError"]
           ELSE CVisit(subscript.slice, B)
  IN [r EXCEPT !.collected = found \cup @]

\* self.visit(withstmt.body) hands NodeVisitor.visit a list
CollectorVisit_With(withstmt, B) ==
  IF withstmt.items = <<>> THEN [collected |-> {}, err |-> "IndexError"]
  ELSE LET rootdir == withstmt.items[1].context_expr
           found == IF rootdir.k = "Name" /\ ismacroname(rootdir.id, B)
                    THEN {<<rootdir.id, "block">>} ELSE {}
           r == IF IsNone(rootdir) THEN [collected |-> {}, err |-> "AttributeError"]
                ELSE CVisit(ListV(withstmt.body), B)
       IN [r EXCEPT !.collected = found \cup @]

CollectorVisit_Decorated(decorated, B) ==
  LET det == _detect_decorator_macros(decorated.decorator_list, B)
      found == {<<det.macros[i].id, "decorator">> : i \in 1..Len(det.macros)}
      r1 == CVisitSeq(det.others, B)
      r2 == CVisitSeq(decorated.body, B)
      r == IF r1.err # "" THEN r1 ELSE CJoin(r1, r2)
  IN [r EXCEPT !.collected = found \cup @]

CollectorVisit_Name(name, B) ==
  [collected |-> IF ismacroname(name.id, B) /\ isnamemacro(B[name.id])
                 THEN {<<name.id, "name">>} ELSE {},
   err |-> ""]

\* NodeVisitor.visit
CVisit(n, B) ==
  IF ~IsAST(n) THEN [collected |-> {}, err |-> "AttributeError"]
  ELSE CASE n.k = "Subscript" -> CollectorVisit_Subscript(n, B)
         [] n.k = "With" -> CollectorVisit_With(n, B)
         [] IsDef(n) -> CollectorVisit_Decorated(n, B)
         [] n.k = "Name" -> CollectorVisit_Name(n, B)
         [] OTHER -> Cgeneric_visit(n, B)

\* The (macro name, syntax) pairs of the nodes of a tree on which a visit method
\* of MacroExpander would take its macro branch, were it to visit them.
ExpanderDetects(n, B) ==
  LET Seq_(q) == UNION {ExpanderDetects(q[i], B) : i \in 1..Len(q)}
      ismacro(e) == e.k = "Name" /\ ismacroname(e.id, B)
  IN CASE n.k = "List" -> Seq_(n.elts)
       [] n.k = "Expr" -> ExpanderDetects(n.value, B)
       [] n.k = "withitem" -> ExpanderDetects(n.context_expr, B)
       [] n.k = "Module" -> Seq_(n.body)
       [] n.k = "Subscript" ->
            IF ismacro(n.value)
            THEN {<<n.value.id, "expr">>} \cup ExpanderDetects(n.slice, B)
            ELSE ExpanderDetects(n.value, B) \cup ExpanderDetects(n.slice, B)
       [] n.k = "With" ->
            IF n.items # <<>> /\ ismacro(n.items[1].context_expr)
            THEN {<<n.items[1].context_expr.id, "block">>} \cup Seq_(n.body)
            ELSE Seq_(n.items) \cup Seq_(n.body)
       [] IsDef(n) ->
            LET det == _detect_decorator_macros(n.decorator_list, B)
            IN {<<det.macros[i].id, "decorator">> : i \in 1..Len(det.macros)}
               \cup Seq_(det.others) \cup Seq_(n.body)
       [] n.k = "Name" ->
            IF ismacroname(n.id, B) /\ isnamemacro(B[n.id])
            THEN {<<n.id, "name">>} ELSE {}
       [] OTHER -> {}

\* ------------------------------------------------------------------ find_macros
\* Strings that the code takes apart (paths, dotted names) are sequences of tokens:
\* a letter or a separator is one token, the reserved word macros is one token.
\* The empty sequence stands for None (no module name, no asname).
alias(name, asname) == [k |-> "alias", name |-> name, asname |-> asname]
Import(names, l, c) == [k |-> "Import", names |-> names, lineno |-> l, col_offset |-> c]
ImportFrom(module, names, level, l, c) ==
  [k |-> "ImportFrom", module |-> module, names |-> names, level |-> level,
   lineno |-> l, col_offset |-> c]

\* sys.path and os.path.sep
SysPath == << <<"/", "r">> >>
Sep == "/"

\* The macro definition modules that can be imported, with their attributes.
ModuleTable ==
  [name \in { <<"m">>, <<"p">>, <<"p", ".", "m">>, <<"a">> } |->
     CASE name = <<"m">> -> [a |-> [ret |-> "fresh", nm |-> FALSE],
                             b |-> [ret |-> "same", nm |-> TRUE]]
       [] name = <<"p", ".", "m">> -> [a |-> [ret |-> "same", nm |-> FALSE],
                                       b |-> [ret |-> "none", nm |-> TRUE]]
       [] name = <<"a">> -> [a |-> [ret |-> "list", nm |-> FALSE]]
       [] OTHER -> [z |-> [ret |-> "none", nm |-> FALSE]]]

StartsWith(str, prefix) ==
  Len(prefix) <= Len(str) /\ SubSeq(str, 1, Len(prefix)) = prefix

\* pathlib.Path(filename).parent: the path up to its last separator
RECURSIVE Parent(_)
Parent(path) ==
  IF path = <<>> THEN <<>>
  ELSE IF path[Len(path)] = Sep THEN SubSeq(path, 1, Len(path) - 1)
  ELSE Parent(SubSeq(path, 1, Len(path) - 1))

\* str.replace(os.path.sep, '.')
ReplaceSep(str) == [i \in 1..Len(str) |-> IF str[i] = Sep THEN "." ELSE str[i]]

RECURSIVE _resolve_packageFrom(_, _)
_resolve_packageFrom(pyfiledir, roots) ==
  IF roots = <<>> THEN [err |-> "ImportError", package |-> <<>>]
  ELSE LET rootdir == Head(roots)
       IN IF StartsWith(pyfiledir, rootdir)
          THEN LET package_relative_path == SubSeq(pyfiledir, Len(rootdir) + 1, Len(pyfiledir))
               IN IF package_relative_path = <<>>
                  THEN [err |-> "ValueError", package |-> <<>>]
                  ELSE [err |-> "", package |-> ReplaceSep(Tail(package_relative_path))]
          ELSE _resolve_packageFrom(pyfiledir, Tail(roots))

\* A faulty variant: a file at the root of a search root is given the empty
\* package instead of the ValueError.
_resolve_packageAtRootEmpty(filename) ==
  LET r == _resolve_packageFrom(Parent(filename), SysPath)
  IN IF r.err = "ValueError" THEN [err |-> "", package |-> <<>>] ELSE r

_resolve_package(filename) == _resolve_packageFrom(Parent(filename), SysPath)

\* str.rsplit('.', n)[0] together with the number of pieces the split gives
RECURSIVE RSplit(_, _)
RSplit(str, n) ==
  IF n <= 0 THEN [base |-> str, pieces |-> 1]
  ELSE LET dots == {i \in 1..Len(str) : str[i] = "."}
       IN IF dots = {} THEN [base |-> str, pieces |-> 1]
          ELSE LET last == CHOOSE i \in dots : \A j \in dots : j <= i
                   r == RSplit(SubSeq(str, 1, last - 1), n - 1)
               IN [base |-> r.base, pieces |-> r.pieces + 1]

\* importlib.util.resolve_name('.' * level + module, package)
resolve_name(level, module, package) ==
  IF level = 0 THEN [err |-> "", name |-> module]
  ELSE IF package = <<>> THEN [err |-> "ImportError", name |-> <<>>]
  ELSE LET bits == RSplit(package, level - 1)
       IN IF bits.pieces < level THEN [err |-> "ImportError", name |-> <<>>]
          ELSE [err |-> "", name |-> bits.base \o <<".">> \o module]

\* The token that spells an identifier (a dotted name of one token).
Ident(tokens) == tokens[1]

_get_macros(macroimport, filename) ==
  LET NoMacros == [err |-> "", module_fullname |-> <<>>, bindings |-> <<>>]
  IN IF macroimport.module = <<>> THEN [NoMacros EXCEPT !.err = "SyntaxError"]
     ELSE
       LET pkg == IF macroimport.level > 0 THEN _resolve_package(filename)
                  ELSE [err |-> "", package |-> <<>>]
       IN IF pkg.err = "ValueError" THEN [NoMacros EXCEPT !.err = "SyntaxError"]
          ELSE IF pkg.err = "ImportError" THEN [NoMacros EXCEPT !.err = "ImportError"]
          ELSE
            LET res == resolve_name(macroimport.level, macroimport.module, pkg.package)
                names == Tail(macroimport.names)
            IN IF res.err # "" THEN [NoMacros EXCEPT !.err = res.err]
               ELSE IF res.name \notin DOMAIN ModuleTable
               THEN [NoMacros EXCEPT !.err = "ModuleNotFoundError"]
               ELSE
                 LET module == ModuleTable[res.name]
                     key(n) == Ident(IF n.asname # <<>> THEN n.asname ELSE n.name)
                     \* a dict comprehension: a later name overrides an earlier one
                     last(kk) == CHOOSE i \in 1..Len(names) :
                                   /\ key(names[i]) = kk
                                   /\ \A j \in 1..Len(names) : key(names[j]) = kk => j <= i
                 IN IF \E i \in 1..Len(names) : Ident(names[i].name) \notin DOMAIN module
                    THEN [NoMacros EXCEPT !.err = "AttributeError"]
                    ELSE [err |-> "", module_fullname |-> res.name,
                          bindings |-> [kk \in {key(names[i]) : i \in 1..Len(names)} |->
                                          module[Ident(names[last(kk)].name)]]]

_is_macro_import(statement) ==
  /\ statement.k = "ImportFrom"
  /\ LET firstimport == statement.names[1]
     IN firstimport.name = <<"macros">> /\ firstimport.asname = <<>>

\* dict.update
Update(B, more) ==
  [kk \in DOMAIN B \cup DOMAIN more |-> IF kk \in DOMAIN more THEN more[kk] ELSE B[kk]]

\* A faulty variant of the replacement: the module name as the statement spells it.
MacroImportReplacementAsWritten(module_fullname, statement) ==
  copy_location(Import(<<alias(statement.module, <<>>)>>, NoLine, NoCol), statement)

\* The statement that find_macros puts in the place of a macro-import.
MacroImportReplacement(module_fullname, statement) ==
  copy_location(Import(<<alias(module_fullname, <<>>)>>, NoLine, NoCol), statement)

\* for index, statement in enumerate(tree.body), from statement index on
RECURSIVE find_macrosFrom(_, _, _, _)
find_macrosFrom(body, index, B, filename) ==
  IF index > Len(body) THEN [err |-> "", body |-> body, bindings |-> B]
  ELSE IF _is_macro_import(body[index])
  THEN LET g == _get_macros(body[index], filename)
       IN IF g.err # "" THEN [err |-> g.err, body |-> body, bindings |-> B]
          ELSE find_macrosFrom(
                 [body EXCEPT ![index] = MacroImportReplacement(g.module_fullname, body[index])],
                 index + 1, Update(B, g.bindings), filename)
  ELSE find_macrosFrom(body, index + 1, B, filename)

find_macros(tree, filename) == find_macrosFrom(tree.body, 1, <<>>, filename)

\* The names a top-level import statement binds in the run-time namespace.
BoundNames(statement) ==
  CASE statement.k = "ImportFrom" ->
         {IF statement.names[i].asname # <<>> THEN statement.names[i].asname
          ELSE statement.names[i].name : i \in 1..Len(statement.names)}
    [] statement.k = "Import" ->
         {IF statement.names[i].asname # <<>> THEN statement.names[i].asname
          ELSE LET nm == statement.names[i].name
                   dots == {j \in 1..Len(nm) : nm[j] = "."}
               IN IF dots = {} THEN nm
                  ELSE SubSeq(nm, 1, (CHOOSE j \in dots : \A h \in dots : j <= h) - 1)
          : i \in 1..Len(statement.names)}
    [] OTHER -> {}

\* ------------------------------------------------------------------ inputs
\* Trees as ast.parse gives them: every node located.  A statement sits at column
\* c of line l, the statements of its body one line down and four columns in.
NameIds == MacroNames \cup {"x"}
Names(l, c) == {Name(i, l, c) : i \in NameIds}
Atoms(l, c) == Names(l, c) \cup {Constant("c", l, c)}
Exprs(l, c) ==
  Atoms(l, c)
  \cup {Subscript(v, sl, l, c) : v \in Names(l, c), sl \in Atoms(l, c + 2)}
  \cup {Subscript(Subscript(Name("a", l, c), Constant("c", l, c + 2), l, c), sl, l, c) :
          sl \in {Constant("c", l, c + 5), Name("b", l, c + 5)}}
  \cup {Subscript(v, Subscript(Name("b", l, c + 2), Constant("c", l, c + 4), l, c + 2), l, c) :
          v \in {Name("a", l, c), Name("x", l, c)}}
InnerStmts(l, c) ==
  {Expr(e, l, c) : e \in {Name("a", l, c), Name("x", l, c),
                          Subscript(Name("b", l, c), Constant("c", l, c + 2), l, c)}}
  \cup {With(<<withitem(Name("a", l, c + 5))>>, <<Expr(Name("x", l + 1, c + 4), l + 1, c + 4)>>,
             l, c)}
ItemSeqs(l, c) ==
  UNION {{[i \in 1..n |-> withitem(Name(f[i], l, c + 5 * i))] : f \in [1..n -> NameIds]} :
           n \in 1..MaxItems}
DecoSeqs(l, c) ==
  UNION {{[i \in 1..n |-> Name(f[i], l, c + i)] : f \in [1..n -> NameIds]} :
           n \in 0..MaxDecorators}
Withs(l, c) == {With(items, <<st>>, l, c) : items \in ItemSeqs(l, c), st \in InnerStmts(l + 1, c + 4)}
Defs(l, c) ==
  {FunctionDef(ds, <<st>>, l, c) : ds \in DecoSeqs(l, c), st \in InnerStmts(l + 1, c + 4)}
  \cup {ClassDef(ds, <<Expr(Name("x", l + 1, c + 4), l + 1, c + 4)>>, l, c) : ds \in DecoSeqs(l, c)}
Stmts(l, c) == {Expr(e, l, c) : e \in Exprs(l, c)} \cup Withs(l, c) \cup Defs(l, c)

\* Modules of one statement, handed to the expander with a binding table.
ExpModules == {Module(<<st>>) : st \in Stmts(2, 0)}

\* The binding tables a caller may hand to expand_macros.
MacroFunctions == [ret : Behaviours, nm : BOOLEAN]
FunctionsOfB == {[ret |-> "same", nm |-> TRUE], [ret |-> "fresh", nm |-> FALSE],
                 [ret |-> "none", nm |-> FALSE]}
Tables ==
  {<<>>}
  \cup {[n \in {"a"} |-> fa] : fa \in MacroFunctions}
  \cup {[n \in {"b"} |-> fb] : fb \in FunctionsOfB}
  \cup {[n \in MacroNames |-> IF n = "a" THEN fa ELSE fb] :
          fa \in MacroFunctions, fb \in FunctionsOfB}

\* Modules whose top level has import statements, for find_macros.
ImportKinds == {"abs", "rel", "rel2", "nomodule", "noattr", "samename", "plain", "expr"}
ImportStmt(kind, l) ==
  LET macros == alias(<<"macros">>, <<>>)
  IN CASE kind = "abs" -> ImportFrom(<<"m">>, <<macros, alias(<<"a">>, <<>>)>>, 0, l, 0)
       [] kind = "rel" -> ImportFrom(<<"m">>, <<macros, alias(<<"a">>, <<"b">>)>>, 1, l, 0)
       [] kind = "rel2" -> ImportFrom(<<"m">>, <<macros, alias(<<"b">>, <<>>)>>, 2, l, 0)
       [] kind = "nomodule" -> ImportFrom(<<>>, <<macros, alias(<<"a">>, <<>>)>>, 1, l, 0)
       [] kind = "noattr" -> ImportFrom(<<"m">>, <<macros, alias(<<"z">>, <<>>)>>, 0, l, 0)
       [] kind = "samename" -> ImportFrom(<<"a">>, <<macros, alias(<<"a">>, <<>>)>>, 0, l, 0)
       [] kind = "plain" -> ImportFrom(<<"m">>, <<alias(<<"a">>, <<>>)>>, 0, l, 0)
       [] kind = "expr" -> Expr(Subscript(Name("a", l, 0), Name("b", l, 2), l, 0), l, 0)
ImportModules ==
  UNION {{Module([i \in 1..n |-> ImportStmt(f[i], i)]) : f \in [1..n -> ImportKinds]} :
           n \in 1..MaxBody}
Filenames == { <<"/", "r", "/", "f">>, <<"/", "r", "/", "p", "/", "f">>,
               <<"/", "r", "/", "p", "/", "q", "/", "f">>, <<"/", "o", "/", "f">> }

\* ------------------------------------------------------------------ dialects
\* A source text is a sequence of lines.  A line is an import of the form
\* "from <module> import <magic>, <names>" (with the names in parentheses when
\* paren is set), a line of plain code, or a line in a surface syntax that only
\* a dialect can turn into Python.
FromLine(module, magic, names, paren) ==
  [k |-> "from", module |-> module, magic |-> magic, names |-> names, paren |-> paren]
CodeLine(id) == [k |-> "code", id |-> id]
AlienLine == [k |-> "alien"]

\* The bytes of a source file and their text have the same lines.
Bytes(lines) == [bytes |-> lines]
_decode_source_content(data) == data.bytes

\* The statement a line parses to, at line l.
ParseLine(line, l) ==
  IF line.k = "from"
  THEN ImportFrom(line.module,
                  <<alias(<<line.magic>>, <<>>)>>
                    \o [i \in 1..Len(line.names) |-> alias(<<line.names[i]>>, <<>>)],
                  0, l, 0)
  ELSE Expr(Name(line.id, l, 0), l, 0)

\* ast.parse(text)
ast_parse(text) ==
  IF \E i \in 1..Len(text) : text[i].k = "alien"
  THEN [err |-> "SyntaxError", tree |-> NoneV]
  ELSE [err |-> "", tree |-> Module([i \in 1..Len(text) |-> ParseLine(text[i], i)])]

\* ast.parse(data), of the bytes of a source file
ast_parseBytes(data) == ast_parse(data.bytes)

\* _dialectimport.finditer(text): the lines the pattern matches, in order.  The
\* pattern wants "import dialects," followed by names: it matches neither
\* "from d import dialects" nor the parenthesised "from d import (dialects, A)".
RECURSIVE finditer(_)
finditer(text) ==
  IF text = <<>> THEN <<>>
  ELSE LET line == Head(text)
       IN (IF line.k = "from" /\ line.magic = "dialects" /\ line.names # <<>> /\ ~line.paren
           THEN <<line>> ELSE <<>>) \o finditer(Tail(text))

\* What a module attribute named in a dialect-import can be: a class derived
\* from Dialect, an instance of such a class, an instance that can be called and
\* then gives a dialect, or something that is no dialect at all.
\* (kind: "class", "instance", "callable" or "function"; st, the source transform:
\* "same" or "append"; at, the AST transform: "same", "append" or "reinsert").
DialectAttr(kind, st, at) == [kind |-> kind, st |-> st, at |-> at]

\* The dialect definition modules that can be imported.
DialectTable ==
  [name \in { <<"d">> } |->
     [A |-> DialectAttr("class", "append", "append"),
      B |-> DialectAttr("class", "same", "same"),
      C |-> DialectAttr("callable", "append", "append"),
      D |-> DialectAttr("callable", "same", "same"),
      R |-> DialectAttr("callable", "same", "reinsert"),
      I |-> DialectAttr("instance", "same", "same"),
      F |-> DialectAttr("function", "same", "same")]]

\* ismacroimport(statement, magicname)
ismacroimport(statement, magicname) ==
  /\ statement.k = "ImportFrom"
  /\ statement.names[1].name = <<magicname>> /\ statement.names[1].asname = <<>>

\* get_macros(statement, filename, reload=False, allow_asname=False) on an
\* absolute import: the module's absolute name and the named attributes, in the
\* order of the statement.
get_macros(statement, filename) ==
  LET NoMacros == [err |-> "", module_absname |-> <<>>, names |-> <<>>, bindings |-> <<>>]
      names == [i \in 1..(Len(statement.names) - 1) |-> Ident(statement.names[i + 1].name)]
  IN IF statement.module = <<>> THEN [NoMacros EXCEPT !.err = "SyntaxError"]
     ELSE IF statement.module \notin DOMAIN DialectTable
     THEN [NoMacros EXCEPT !.err = "ModuleNotFoundError"]
     ELSE LET module == DialectTable[statement.module]
          IN IF \E i \in 1..Len(names) : names[i] \notin DOMAIN module
             THEN [NoMacros EXCEPT !.err = "ImportError"]
             ELSE [err |-> "", module_absname |-> statement.module, names |-> names,
                   bindings |-> [n \in {names[i] : i \in 1..Len(names)} |-> module[n]]]

\* bindings.items(): the names in the order of their first occurrence
RECURSIVE items(_, _)
items(names, done) ==
  IF names = <<>> THEN <<>>
  ELSE IF Head(names) \in done THEN items(Tail(names), done)
  ELSE <<Head(names)>> \o items(Tail(names), done \cup {Head(names)})

\* What the transformers of the dialects at hand do.  A transformer that adds
\* a line or a statement does so while the module has fewer than MaxLines + 1.
SourceTransform(st, text) ==
  IF st = "append" /\ Len(text) <= MaxLines THEN Append(text, CodeLine("t")) ELSE text

DialectImportOf(module, name, l, c) ==
  ImportFrom(module, <<alias(<<"dialects">>, <<>>), alias(<<name>>, <<>>)>>, 0, l, c)

AstTransform(at, name, t) ==
  CASE at = "append" /\ Len(t.body) <= MaxLines ->
         [t EXCEPT !.body = Append(t.body, Expr(Name("t", Len(t.body) + 1, 0), Len(t.body) + 1, 0))]
    [] at = "reinsert" ->
         [t EXCEPT !.body = [i \in 1..Len(t.body) |->
            IF t.body[i].k = "Import"
            THEN DialectImportOf(t.body[i].names[1].name, name, t.body[i].lineno, t.body[i].col_offset)
            ELSE t.body[i]]]
    [] OTHER -> t

\* dialect.transform_source(text) / dialect.transform_ast(tree)
Transform(stage, cls, name, input) ==
  IF stage = "source" THEN SourceTransform(cls.st, input) ELSE AstTransform(cls.at, name, input)


\* isinstance(cls, Dialect): true of an instance of Dialect or of a class
\* derived from it, false of such a class itself
isinstanceDialect(cls) == cls.kind \in {"instance", "callable"}

\* cls() succeeds
Callable(cls) == cls.kind \in {"class", "callable"}

\* for dialectname, cls in bindings.items(): check, instantiate, transform;
\* calls collects the transformer calls made
RECURSIVE ApplyDialects(_, _, _, _, _), ApplyDialectsNext(_, _, _, _, _, _)
ApplyDialects(stage, names, bindings, cur, calls) ==
  IF names = <<>> THEN [err |-> "", out |-> cur, calls |-> calls]
  ELSE LET cls == bindings[Head(names)]
       IN IF ~isinstanceDialect(cls) \/ ~Callable(cls)
          THEN [err |-> "TypeError", out |-> cur, calls |-> calls]
          ELSE ApplyDialectsNext(stage, names, bindings, cur, calls,
                                 Transform(stage, cls, Head(names), cur))

ApplyDialectsNext(stage, names, bindings, cur, calls, out) ==
  ApplyDialects(stage, Tail(names), bindings, out,
                Append(calls, [name |-> Head(names), arg |-> cur, out |-> out]))

\* statement, *groups = list(match): a match object cannot be iterated
ListOfMatch(match) == [err |-> "TypeError", statement |-> match]

\* DialectExpander.find_dialectimport_source
find_dialectimport_source(text, _seen, filename) ==
  LET matches == finditer(text)
      NotFound == [err |-> "", module_absname |-> <<>>, names |-> <<>>, bindings |-> <<>>,
                   _seen |-> _seen]
  IN IF matches = <<>> THEN NotFound
     ELSE LET unpacked == ListOfMatch(matches[1])
          IN IF unpacked.err # "" THEN [NotFound EXCEPT !.err = unpacked.err]
             ELSE LET fresh == {i \in 1..Len(matches) : matches[i] \notin _seen}
                  IN IF fresh = {} THEN NotFound
                     ELSE LET statement == matches[CHOOSE i \in fresh : \A j \in fresh : i <= j]
                              g == get_macros(ParseLine(statement, 1), filename)
                          IN [err |-> g.err, module_absname |-> g.module_absname,
                              names |-> g.names, bindings |-> g.bindings,
                              _seen |-> _seen \cup {statement}]

\* A faulty variant of the replacement: the dialect-import stays where it is.
DialectImportKept(module_absname, statement) == statement

\* The statement find_dialectimport_ast puts in the place of a dialect-import.
DialectImportReplacement(module_absname, statement) ==
  copy_location(Import(<<alias(module_absname, <<>>)>>, NoLine, NoCol), statement)

\* A faulty variant of the scan: only the first statement is looked at.
FirstDialectImportHeadOnly(body) ==
  IF body # <<>> /\ ismacroimport(body[1], "dialects") THEN 1 ELSE 0

\* for index, statement in enumerate(tree.body): the first dialect-import (0
\* when the loop runs to its end)
FirstDialectImport(body) ==
  LET is == {i \in 1..Len(body) : ismacroimport(body[i], "dialects")}
  IN IF is = {} THEN 0 ELSE CHOOSE i \in is : \A j \in is : i <= j

\* DialectExpander.find_dialectimport_ast
find_dialectimport_astAt(t, index, filename) ==
  IF index = 0
  THEN [err |-> "", module_absname |-> <<>>, names |-> <<>>, bindings |-> <<>>, tree |-> t,
        index |-> 0]
  ELSE LET g == get_macros(t.body[index], filename)
       IN [err |-> g.err, module_absname |-> g.module_absname, names |-> g.names,
           bindings |-> g.bindings,
           tree |-> IF g.err # "" THEN t
                    ELSE [t EXCEPT !.body[index] =
                            DialectImportReplacement(g.module_absname, t.body[index])],
           index |-> index]

find_dialectimport_ast(t, filename) ==
  find_dialectimport_astAt(t, FirstDialectImport(t.body), filename)

\* ------------------------------------------------------------------ dynamically created modules
\* A dotted name is a sequence of tokens; the token "." separates components.
\* A token is a whole word: an identifier, or a numeral.
Numerals == {"1"}

\* str.split("."): the components of a dotted name, each a sequence of tokens
RECURSIVE Split(_, _)
Split(name, component) ==
  IF name = <<>> THEN <<component>>
  ELSE IF Head(name) = "." THEN <<component>> \o Split(Tail(name), <<>>)
  ELSE Split(Tail(name), Append(component, Head(name)))

\* component.isidentifier()
isidentifier(component) == Len(component) = 1 /\ component[1] \notin Numerals

\* The place of the last "." of a dotted name (0 when it has none).
LastDot(name) ==
  LET dots == {i \in 1..Len(name) : name[i] = "."}
  IN IF dots = {} THEN 0 ELSE CHOOSE i \in dots : \A j \in dots : j <= i

\* gensym(""): a name no call has given before
gensym(hp) == ToString(Len(hp) + 1)

\* types.ModuleType(dotted_name) with __name__, __file__ and __package__ set
ModuleType(name, file, package) ==
  [__name__ |-> name, __file__ |-> file, __package__ |-> package, dict |-> <<>>]

\* A reference to the module object at place id of the heap.
ModuleRef(id) == [k |-> "module", id |-> id]

\* dict[key] = value
SetItem(d, key, value) ==
  [kk \in DOMAIN d \cup {key} |-> IF kk = key THEN value ELSE d[kk]]

\* A faulty variant: the new module is registered before the parent package is
\* looked up.
create_moduleRegisteringFirst(dotted_name, fname, sm, hp) ==
  LET name == IF dotted_name # <<>> THEN dotted_name
              ELSE <<"dynamically_created_module_" \o gensym(hp)>>
      id == Len(hp) + 1
      last == LastDot(name)
      packagename == SubSeq(name, 1, last - 1)
      file == IF fname # <<>> THEN fname ELSE <<"<dynamically created module>", name>>
  IN IF last > 0 /\ packagename \notin DOMAIN sm
     THEN [err |-> "ModuleNotFoundError", module |-> 0,
           sysmodules |-> SetItem(sm, name, id),
           heap |-> Append(hp, ModuleType(name, file, <<>>))]
     ELSE [err |-> "", module |-> id, sysmodules |-> SetItem(sm, name, id),
           heap |-> Append(hp, ModuleType(name, file, <<>>))]

\* create_module(dotted_name, filename), on the registry sm and the objects hp;
\* <<>> stands for an argument that is not given
create_module(dotted_name, fname, sm, hp) ==
  LET Unchanged(e) == [err |-> e, module |-> 0, sysmodules |-> sm, heap |-> hp]
      path == Split(dotted_name, <<>>)
  IN IF dotted_name # <<>> /\ \E i \in 1..Len(path) : ~isidentifier(path[i])
     THEN Unchanged("TypeError")
     ELSE
       LET uuid == gensym(hp)
           name == IF dotted_name # <<>> THEN dotted_name
                   ELSE <<"dynamically_created_module_" \o uuid>>
           file == IF fname # <<>> THEN fname
                   ELSE IF dotted_name # <<>> THEN <<"<dynamically created module>", name>>
                   ELSE <<"<dynamically created module>", uuid>>
           id == Len(hp) + 1
           last == LastDot(name)
       IN IF last > 0
          THEN LET packagename == SubSeq(name, 1, last - 1)
                   finalcomponent == name[Len(name)]
               IN IF packagename \notin DOMAIN sm THEN Unchanged("ModuleNotFoundError")
                  ELSE [err |-> "", module |-> id,
                        sysmodules |-> SetItem(sm, name, id),
                        heap |-> Append(
                          [hp EXCEPT ![sm[packagename]].dict =
                             SetItem(@, finalcomponent, ModuleRef(id))],
                          ModuleType(name, file, packagename))]
          ELSE [err |-> "", module |-> id, sysmodules |-> SetItem(sm, name, id),
                heap |-> Append(hp, ModuleType(name, file, <<>>))]

\* ------------------------------------------------------------------ multi-phase compilation
\* The statements of a phase: the definition of a macro that multiplies the
\* constant it is given, a self-macro-import "from __self__ import macros, name",
\* and a use "result = name[arg]".
DefMacro(name, factor) == [k |-> "def", name |-> name, factor |-> factor]
SelfImport(name) == [k |-> "selfimport", name |-> name]
Use(name, arg) == [k |-> "use", name |-> name, arg |-> arg]

\* What a module's namespace holds.
MacroFunction(factor) == [k |-> "macro", factor |-> factor]
IntValue(v) == [k |-> "int", v |-> v]

\* The name of the temporary module of phase k of the module named self.
TempName(self, k) == <<"__phase" \o ToString(k) \o "_" \o self[1]>>

\* A faulty variant: __self__ is the module being compiled, under its real name.
SelfTargetFinal(self, k) == self

\* The module that __self__ stands for in phase k: the temporary module of the
\* phase above.
SelfTarget(self, k) == TempName(self, k + 1)

\* A faulty variant of the order: lowest phase first.
PhaseAfterAscending(k, n) == IF k = n + 1 THEN 0 ELSE IF k = n THEN -1 ELSE k + 1

\* The phase to process after phase k of a source whose highest phase is n
\* (k = n + 1 before the first one; -1 when all are done).
PhaseAfter(k, n) == k - 1

\* The bindings of the self-macro-imports of a body, looked up in the registry.
RECURSIVE ResolveSelfImports(_, _, _, _, _, _)
ResolveSelfImports(body, self, k, sm, hp, B) ==
  IF body = <<>> THEN [err |-> "", bindings |-> B]
  ELSE IF Head(body).k # "selfimport" THEN ResolveSelfImports(Tail(body), self, k, sm, hp, B)
  ELSE LET target == SelfTarget(self, k)
       IN IF target \notin DOMAIN sm THEN [err |-> "ModuleNotFoundError", bindings |-> B]
          ELSE IF Head(body).name \notin DOMAIN hp[sm[target]].dict
          THEN [err |-> "ImportError", bindings |-> B]
          ELSE ResolveSelfImports(Tail(body), self, k, sm, hp,
                 SetItem(B, Head(body).name, hp[sm[target]].dict[Head(body).name]))

\* Macro expansion of a phase: a use of a bound macro becomes the constant the
\* macro returns, a self-macro-import becomes a plain import of its module.
ExpandPhase(body, self, k, B) ==
  [i \in 1..Len(body) |->
     CASE body[i].k = "use" /\ body[i].name \in DOMAIN B /\ B[body[i].name].k = "macro" ->
            [k |-> "assign", value |-> B[body[i].name].factor * body[i].arg]
       [] body[i].k = "selfimport" -> [k |-> "import", module |-> SelfTarget(self, k)]
       [] OTHER -> body[i]]

\* The statements "x = value" and "x = 2 * x".
SetX(value) == [k |-> "setx", value |-> value]
DoubleX == [k |-> "doublex"]

\* exec(code, module.__dict__): the namespace after the statements have run
\* (after the ones that ran, when one raises)
RECURSIVE Exec(_, _)
Exec(body, d) ==
  IF body = <<>> THEN [err |-> "", dict |-> d]
  ELSE LET st == Head(body)
       IN CASE st.k = "def" -> Exec(Tail(body), SetItem(d, st.name, MacroFunction(st.factor)))
            [] st.k = "assign" -> Exec(Tail(body), SetItem(d, "result", IntValue(st.value)))
            [] st.k = "use" -> [err |-> "NameError", dict |-> d]
            [] st.k = "setx" -> Exec(Tail(body), SetItem(d, "x", IntValue(st.value)))
            [] st.k = "doublex" ->
                 IF "x" \notin DOMAIN d THEN [err |-> "NameError", dict |-> d]
                 ELSE Exec(Tail(body), SetItem(d, "x", IntValue(2 * d["x"].v)))
            [] OTHER -> Exec(Tail(body), d)

\* ------------------------------------------------------------------ the importer
\* The source files, by path, and the module each is found as.
Paths == {"a.py", "pk/b.py", "pk/c.py"}

\* importlib.util.find_spec(module_absname).origin, for the names that have a
\* spec; "__self__" and names of no module have none
FindSpec == [name \in { <<"a">>, <<"pk", ".", "b">>, <<"pk", ".", "c">> } |->
               IF name = <<"a">> THEN "a.py"
               ELSE IF name = <<"pk", ".", "b">> THEN "pk/b.py" ELSE "pk/c.py"]

\* resolve_package(path): the package of the file, or the error for a file
\* that is in no package
resolve_package(path) ==
  IF path = "a.py" THEN [err |-> "ValueError", package |-> <<>>]
  ELSE [err |-> "", package |-> <<"pk">>]

\* A source file: st_mtime_ns, the statements of the module, and the entry of
\* the side-cache next to its .pyc (NoneV when there is no such file).
File(st_mtime_ns, body) == [st_mtime_ns |-> st_mtime_ns, body |-> body, pickle |-> NoneV]

\* The entry of the side-cache of a file.
Pickle(st_mtime_ns, macroimports, dialectimports, has_relative_macroimports) ==
  [k |-> "pickle", st_mtime_ns |-> st_mtime_ns, macroimports |-> macroimports,
   dialectimports |-> dialectimports, has_relative_macroimports |-> has_relative_macroimports]

\* How many nanosecond ticks one representable value of the float seconds spans.
FloatGrain == 2

\* st_mtime_ns * 1e-9: the time as a float, which has fewer digits
Seconds(st_mtime_ns) == st_mtime_ns \div FloatGrain

\* max(mtimes)
MaxOf(mtimes) == CHOOSE m \in mtimes : \A other \in mtimes : other <= m

\* [stmt for stmt in tree.body if ismacroimport(stmt, magicname)]
RECURSIVE ImportsOf(_, _)
ImportsOf(body, magicname) ==
  IF body = <<>> THEN <<>>
  ELSE (IF ismacroimport(Head(body), magicname) THEN <<Head(body)>> ELSE <<>>)
       \o ImportsOf(Tail(body), magicname)

\* any(macroimport.level for macroimport in macro_and_dialect_imports)
AnyLevel(imports) == \E i \in 1..Len(imports) : imports[i].level # 0

\* A faulty variant: the side-cache entry is used whatever its timestamp.
CacheValidAnyTime(entry, st_mtime_ns) == entry.k = "pickle"

\* cache_valid: the side-cache entry could be read and has the file's timestamp
CacheValid(entry, st_mtime_ns) == entry.k = "pickle" /\ entry.st_mtime_ns = st_mtime_ns

\* What path_xstats hands on: the error, the time, the files and the cache as
\* they are left, and the files whose time was computed, with the imports used.
XResult(e, mtime, F, C, V) == [err |-> e, mtime |-> mtime, files |-> F, cache |-> C, visited |-> V]

\* A faulty variant: the time of the file itself only.
XStoreOwn(path, st_mtime_ns, mtimes, F, C, V) ==
  XResult("", Seconds(st_mtime_ns), F, SetItem(C, path, Seconds(st_mtime_ns)), V)

\* mtimes.append(mtime); result = {"mtime": max(mtimes)}; _xstats_cache[path] = result
XStore(path, st_mtime_ns, mtimes, F, C, V) ==
  XResult("", MaxOf(mtimes \cup {Seconds(st_mtime_ns)}), F,
          SetItem(C, path, MaxOf(mtimes \cup {Seconds(st_mtime_ns)})), V)

XFinish(path, st_mtime_ns, l) ==
  IF l.err # "" THEN l ELSE XStore(path, st_mtime_ns, l.mtimes, l.files, l.cache, l.visited)

\* path in _xstats_cache
XCached(path, C) == path \in DOMAIN C

RECURSIVE path_xstats(_, _, _, _, _, _), XLoop(_, _, _, _, _, _, _, _), XAfter(_, _, _, _, _, _)
\* path_xstats(self, path) on the files F and the memo C, with depth frames
\* left on the interpreter's stack and w = not sys.dont_write_bytecode
path_xstats(path, F, C, V, depth, w) ==
  IF XCached(path, C) THEN XResult("", C[path], F, C, V)
  ELSE IF depth = 0 THEN XResult("RecursionError", 0, F, C, V)
  ELSE
    LET stat_result == F[path]
        data == F[path].pickle
        cache_valid == CacheValid(data, stat_result.st_mtime_ns)
        macroimports == ImportsOf(stat_result.body, "macros")
        dialectimports == ImportsOf(stat_result.body, "dialects")
        macro_and_dialect_imports ==
          IF cache_valid THEN data.macroimports \o data.dialectimports
          ELSE macroimports \o dialectimports
        has_relative_macroimports ==
          IF cache_valid THEN data.has_relative_macroimports
          ELSE AnyLevel(macro_and_dialect_imports)
        F1 == IF ~cache_valid /\ w
              THEN [F EXCEPT ![path].pickle =
                      Pickle(stat_result.st_mtime_ns, macroimports, dialectimports,
                             has_relative_macroimports)]
              ELSE F
        V1 == Append(V, [path |-> path, cache_valid |-> cache_valid,
                         imports |-> macro_and_dialect_imports,
                         has_relative_macroimports |-> has_relative_macroimports])
    IN IF has_relative_macroimports /\ resolve_package(path).err # ""
       THEN XResult("ImportError", 0, F1, C, V1)
       ELSE XFinish(path, stat_result.st_mtime_ns,
                    XLoop(macro_and_dialect_imports,
                          IF has_relative_macroimports THEN resolve_package(path).package
                          ELSE <<>>,
                          F1, C, V1, {}, depth, w))

\* for macroimport in macro_and_dialect_imports: ...
XLoop(imports, package_absname, F, C, V, mtimes, depth, w) ==
  IF imports = <<>> THEN [err |-> "", mtimes |-> mtimes, files |-> F, cache |-> C, visited |-> V]
  ELSE IF Head(imports).module = <<>> THEN XResult("SyntaxError", 0, F, C, V)
  ELSE IF resolve_name(Head(imports).level, Head(imports).module, package_absname).err # ""
  THEN XResult("ImportError", 0, F, C, V)
  ELSE IF resolve_name(Head(imports).level, Head(imports).module, package_absname).name
            \notin DOMAIN FindSpec
  THEN XLoop(Tail(imports), package_absname, F, C, V, mtimes, depth, w)
  ELSE XAfter(path_xstats(
                FindSpec[resolve_name(Head(imports).level, Head(imports).module,
                                      package_absname).name],
                F, C, V, depth - 1, w),
              Tail(imports), package_absname, mtimes, depth, w)

\* A faulty variant: the time of the imported module is not kept.
XAfterDropping(stats, imports, package_absname, mtimes, depth, w) ==
  IF stats.err # "" THEN stats
  ELSE XLoop(imports, package_absname, stats.files, stats.cache, stats.visited,
             mtimes, depth, w)

\* stats = path_xstats(self, origin); mtimes.append(stats["mtime"])
XAfter(stats, imports, package_absname, mtimes, depth, w) ==
  IF stats.err # "" THEN stats
  ELSE XLoop(imports, package_absname, stats.files, stats.cache, stats.visited,
             mtimes \cup {stats.mtime}, depth, w)

\* ------------------------------------------------------------------ splicing
Assign(targets, value, l, c) ==
  [k |-> "Assign", targets |-> targets, value |-> value, lineno |-> l, col_offset |-> c]

\* ispastehere(tree)
ispastehere(t) == t.k = "Expr" /\ t.value.k = "Name" /\ t.value.id = "__paste_here__"

\* ismagicall(tree)
ismagicall(t) ==
  /\ t.k = "Assign" /\ Len(t.targets) = 1
  /\ t.targets[1].k = "Name" /\ t.targets[1].id = "__all__"

\* What a Walker hands back: the tree as rewritten and what was collected.
Walked(t, collected) == [tree |-> t, collected |-> collected]

\* StatementSplicer().visit(template): every paste-here statement is replaced
\* by the statements of body (a copy of them from the second one on)
RECURSIVE StatementSplicer(_, _)
StatementSplicer(template, body) ==
  IF template = <<>> THEN <<>>
  ELSE (IF ispastehere(Head(template)) THEN body
        ELSE IF Head(template).k \in {"With", "FunctionDef", "ClassDef"}
        THEN <<[Head(template) EXCEPT !.body = StatementSplicer(@, body)]>>
        ELSE <<Head(template)>>)
       \o StatementSplicer(Tail(template), body)

\* splice_statements(body, template, tag)
splice_statements(body, template) ==
  IF body = <<>> THEN [err |-> "ValueError", t |-> <<>>]
  ELSE IF template = <<>> THEN [err |-> "", t |-> body]
  ELSE [err |-> "", t |-> StatementSplicer(template, body)]

\* MagicAllExtractor: the top-level statements that assign __all__ are
\* collected and removed
RECURSIVE MagicAllExtractor(_)
MagicAllExtractor(body) ==
  IF body = <<>> THEN Walked(<<>>, <<>>)
  ELSE LET rest == MagicAllExtractor(Tail(body))
       IN IF ismagicall(Head(body)) THEN Walked(rest.tree, <<Head(body)>> \o rest.collected)
          ELSE Walked(<<Head(body)>> \o rest.tree, rest.collected)

\* MacroImportExtractor: the macro-imports are collected and removed, at any
\* depth, in the order of the text
RECURSIVE MacroImportExtractor(_)
MacroImportExtractor(body) ==
  IF body = <<>> THEN Walked(<<>>, <<>>)
  ELSE LET rest == MacroImportExtractor(Tail(body))
       IN IF ismacroimport(Head(body), "macros")
          THEN Walked(rest.tree, <<Head(body)>> \o rest.collected)
          ELSE IF Head(body).k \in {"With", "FunctionDef", "ClassDef"}
          THEN LET inner == MacroImportExtractor(Head(body).body)
               IN Walked(<<[Head(body) EXCEPT !.body = inner.tree]>> \o rest.tree,
                         inner.collected \o rest.collected)
          ELSE Walked(<<Head(body)>> \o rest.tree, rest.collected)

\* The rest of splice_dialect, once the docstring is set apart.
SpliceMagicAll(docstring, magic, t, b) ==
  LET finalbody == splice_statements(b.tree, t.tree)
  IN IF finalbody.err # "" THEN [err |-> finalbody.err, t |-> <<>>]
     ELSE [err |-> "",
           t |-> docstring \o magic.collected \o t.collected \o b.collected \o finalbody.t]

SpliceDocstring(docstring, body, template) ==
  SpliceMagicAll(docstring, MagicAllExtractor(body), MacroImportExtractor(template),
                 MacroImportExtractor(MagicAllExtractor(body).tree))

\* for stmt in template: copy_location(stmt, body[0]); fix_missing_locations(stmt)
AtStartOf(template, first) ==
  [i \in 1..Len(template) |-> fix_missing_locations(copy_location(template[i], first))]

\* splice_dialect(body, template, tag), for lists of statements
splice_dialect(body, template) ==
  IF body = <<>> THEN [err |-> "ValueError", t |-> <<>>]
  ELSE IF template = <<>> THEN [err |-> "", t |-> body]
  ELSE IF body[1].k = "Expr" /\ body[1].value.k = "Constant"
  THEN SpliceDocstring(<<body[1]>>, Tail(body), AtStartOf(template, body[1]))
  ELSE SpliceDocstring(<<>>, body, AtStartOf(template, body[1]))

\* ------------------------------------------------------------------ the state machine
VARIABLES
  tree,       \* the module being compiled
  filename,   \* the path of its source file
  bindings,   \* the binding table in use
  pc,         \* parsed, found, expanded, stepped or failed
  op,         \* the last operation that ran on the tree
  prev,       \* the tree before the last operation
  log,        \* the macro invocations of the last expander run, in order
  err,        \* the exception that ended the last operation ("" when none)
  nv,         \* how many nodes the last expander run dispatched on
  runs,       \* how many times expand_macros has run
  collected,  \* the last result of MacroCollector.visit, if any
  entry,      \* the entry point a compilation came in by ("none" outside one)
  data,       \* the bytes of the source file
  text,       \* the source text, as the source transformers leave it
  seen,       \* DialectExpander._seen
  calls,      \* the rounds of DialectExpander.transform_ast, with their transformer calls
  stages,     \* the stages of the compilation that have run, with input and output
  sysmodules, \* sys.modules: the module object registered under a dotted name
  heap,       \* the module objects made so far
  phases,     \* the phase table of a multi-phase source: the statements of each phase
  phase,      \* the phase being processed
  events,     \* the calls of create_module and the steps of the phases, in order
  files,      \* the source files: modification time, statements and side-cache entry
  _xstats_cache,        \* importer._xstats_cache
  dont_write_bytecode,  \* sys.dont_write_bytecode
  returned,   \* what the last call of path_xstats returned, the files it computed, and
              \* the operation it came after
  steps       \* how many importer operations have run

vars == <<tree, filename, bindings, pc, op, prev, log, err, nv, runs, collected,
          entry, data, text, seen, calls, stages, sysmodules, heap, phases, phase, events,
          files, _xstats_cache, dont_write_bytecode, returned, steps>>

\* The variables of the importer.
xvars == <<files, _xstats_cache, dont_write_bytecode, returned, steps>>

NoImporter ==
  /\ files = <<>> /\ _xstats_cache = <<>> /\ dont_write_bytecode = FALSE
  /\ returned = NoneV /\ steps = 0

\* The variables of the module registry and of multi-phase compilation.
mvars == <<sysmodules, heap, phases, phase, events>>

NoModules ==
  /\ sysmodules = <<>> /\ heap = <<>> /\ phases = <<>> /\ phase = 0 /\ events = <<>>

\* The variables of a compilation from source.
cvars == <<entry, data, text, seen, calls, stages>>

NoCompilation ==
  /\ entry = "none" /\ data = Bytes(<<>>) /\ text = <<>> /\ seen = {}
  /\ calls = <<>> /\ stages = <<>>

NotCollected == [st |-> "none", collected |-> {}, err |-> ""]
\* A collection made on the current tree is one made on the previous tree once
\* an operation has run.
Aged(c) == IF c.st = "cur" THEN [c EXCEPT !.st = "prev"] ELSE NotCollected

Init ==
  /\ \/ tree \in ExpModules /\ bindings \in Tables /\ filename = <<"/", "r", "/", "p", "/", "f">>
     \/ tree \in ImportModules /\ bindings = <<>> /\ filename \in Filenames
  /\ pc = "parsed"
  /\ op = "none"
  /\ prev = tree
  /\ log = <<>>
  /\ err = ""
  /\ nv = 0
  /\ runs = 0
  /\ collected = NotCollected
  /\ NoCompilation
  /\ NoModules
  /\ NoImporter

\* A failed find_macros leaves the statements it has rewritten so far.
Found(r) ==
  /\ tree' = [tree EXCEPT !.body = r.body]
  /\ bindings' = IF r.err = "" THEN r.bindings ELSE bindings
  /\ err' = r.err
  /\ pc' = IF r.err = "" THEN "found" ELSE "failed"

\* The outcome of an expander run.
Expanded(r, to) ==
  /\ tree' = IF Failed(r) THEN tree ELSE r.t
  /\ log' = r.log
  /\ err' = r.err
  /\ nv' = r.nv
  /\ pc' = IF Failed(r) THEN "failed" ELSE to

Collected(r) == collected' = [st |-> "cur", collected |-> r.collected, err |-> r.err]

\* bindings = find_macros(tree, filename)
FindMacros ==
  /\ pc = "parsed"
  /\ DOMAIN bindings = {}
  /\ Found(find_macros(tree, filename))
  /\ op' = "find_macros"
  /\ prev' = tree
  /\ collected' = Aged(collected)
  /\ UNCHANGED <<filename, log, nv, runs>>
  /\ UNCHANGED cvars
  /\ UNCHANGED mvars
  /\ UNCHANGED xvars

\* tree = expand_macros(tree, bindings, filename)
ExpandMacros ==
  /\ pc \in {"parsed", "found", "expanded"}
  /\ runs < MaxRuns
  /\ Expanded(expand_macros(tree, bindings), "expanded")
  /\ op' = "expand_macros"
  /\ prev' = tree
  /\ runs' = runs + 1
  /\ collected' = Aged(collected)
  /\ UNCHANGED <<filename, bindings>>
  /\ UNCHANGED cvars
  /\ UNCHANGED mvars
  /\ UNCHANGED xvars

\* tree = MacroExpander(bindings, filename).visit_once(tree)
VisitOnce ==
  /\ pc \in {"parsed", "found"}
  /\ Expanded(visit_once(tree, bindings), "stepped")
  /\ op' = "visit_once"
  /\ prev' = tree
  /\ collected' = Aged(collected)
  /\ UNCHANGED <<filename, bindings, runs>>
  /\ UNCHANGED cvars
  /\ UNCHANGED mvars
  /\ UNCHANGED xvars

\* mc = MacroCollector(expander); mc.visit(tree)
Collect ==
  /\ pc \in {"parsed", "found", "expanded"}
  /\ collected.st # "cur"
  /\ Collected(CVisit(tree, bindings))
  /\ UNCHANGED <<tree, filename, bindings, pc, op, prev, log, err, nv, runs>>
  /\ UNCHANGED cvars
  /\ UNCHANGED mvars
  /\ UNCHANGED xvars

\* What one round of the loop of step_expansion leaves: the tree after one
\* layer, and what the collector reports of it.
Stepped(r) ==
  /\ Expanded(r, "stepping")
  /\ Collected(IF Failed(r) THEN CEmpty ELSE CVisit(r.t, bindings))

\* while mc.collected: tree = expander.visit_once(tree).body; mc.clear(); mc.visit(tree)
\* (mc.visit(tree) before the loop is Collect)
StepExpansion ==
  /\ pc \in {"parsed", "found", "stepping"}
  /\ collected.st = "cur" /\ collected.err = "" /\ collected.collected # {}
  /\ runs < MaxRuns
  /\ Stepped(visit_once(tree, bindings))
  /\ op' = "step_expansion"
  /\ prev' = tree
  /\ runs' = runs + 1
  /\ UNCHANGED <<filename, bindings>>
  /\ UNCHANGED cvars
  /\ UNCHANGED mvars
  /\ UNCHANGED xvars

Next == FindMacros \/ ExpandMacros \/ VisitOnce \/ Collect \/ StepExpansion

Spec == Init /\ [][Next]_vars

\* ------------------------------------------------------------------ compilation from source
\* The lines of the source files that are compiled.
DialectNames == {"A", "B", "C", "D", "R", "I", "F"}
Lines ==
  {FromLine(<<"d">>, "dialects", <<n>>, FALSE) : n \in {"A", "B", "C"}}
  \cup {FromLine(<<"d">>, "dialects", <<n>>, TRUE) : n \in DialectNames}
  \cup {FromLine(<<"d">>, "dialects", <<"C", "D">>, TRUE),
        FromLine(<<"d">>, "dialects", <<"D", "Z">>, TRUE),
        FromLine(<<"d">>, "dialects", <<>>, FALSE),
        FromLine(<<"e">>, "dialects", <<"A">>, TRUE),
        FromLine(<<"p", ".", "m">>, "macros", <<"b">>, FALSE),
        CodeLine("x"), CodeLine("b"), AlienLine}
Texts == UNION {[1..n -> Lines] : n \in 1..MaxLines}

Entries == {"expand_dialects", "compile", "source_to_xcode"}

\* A stage that has run: what it was given, what it gave back and the binding
\* table it produced or used.
Stage(name, input, output, table) ==
  [stage |-> name, input |-> input, output |-> output, table |-> table]

CInit ==
  /\ entry \in Entries
  /\ data \in {Bytes(t) : t \in Texts}
  /\ text = <<>> /\ seen = {} /\ calls = <<>> /\ stages = <<>>
  /\ tree = NoneV
  /\ filename = <<"/", "r", "/", "p", "/", "f">>
  /\ bindings = <<>>
  /\ pc = "decode"
  /\ op = "none"
  /\ prev = NoneV
  /\ log = <<>>
  /\ err = ""
  /\ nv = 0
  /\ runs = 0
  /\ collected = NotCollected
  /\ NoModules
  /\ NoImporter

\* The variables a compilation leaves alone.
evars == <<filename, prev, log, nv, runs, collected, entry, data,
           sysmodules, heap, phases, phase, events,
           files, _xstats_cache, dont_write_bytecode, returned, steps>>

\* An exception ends the compilation.
Fails(e) == err' = e /\ pc' = "failed"

\* text = _decode_source_content(data) / importlib.util.decode_source(data)
Decode ==
  /\ pc = "decode"
  /\ text' = _decode_source_content(data)
  /\ pc' = "transform_source"
  /\ op' = "decode"
  /\ UNCHANGED <<tree, bindings, err, seen, calls, stages>>
  /\ UNCHANGED evars

\* One round of the loop of DialectExpander.transform_source, given what
\* find_dialectimport_source found and what the transformers made of the text.
SourceRound(f, a) ==
  IF f.err # "" THEN Fails(f.err) /\ UNCHANGED <<text, seen, stages>>
  ELSE IF f.module_absname = <<>>
  THEN /\ pc' = "parse"
       /\ stages' = Append(stages, Stage("transform_source", _decode_source_content(data), text, <<>>))
       /\ UNCHANGED <<text, seen, err>>
  ELSE IF f.names = <<>> THEN seen' = f._seen /\ UNCHANGED <<text, pc, err, stages>>
  ELSE IF a.err # "" THEN Fails(a.err) /\ seen' = f._seen /\ text' = a.out /\ UNCHANGED stages
  ELSE text' = a.out /\ seen' = f._seen /\ UNCHANGED <<pc, err, stages>>

SourceFound(f) ==
  SourceRound(f, ApplyDialects("source", items(f.names, {}), f.bindings, text, <<>>))

SourceStep ==
  /\ entry = "expand_dialects"
  /\ pc = "transform_source"
  /\ SourceFound(find_dialectimport_source(text, seen, filename))
  /\ op' = "transform_source"
  /\ UNCHANGED <<tree, bindings, calls>>
  /\ UNCHANGED evars

\* tree = ast.parse(data), in DialectExpander.expand
Parsed(p, source, to) ==
  IF p.err # "" THEN Fails(p.err) /\ UNCHANGED <<tree, stages>>
  ELSE /\ tree' = p.tree
       /\ pc' = to
       /\ stages' = Append(stages, Stage("parse", source, p.tree, <<>>))
       /\ UNCHANGED err

Parse ==
  /\ entry = "expand_dialects"
  /\ pc = "parse"
  /\ Parsed(ast_parseBytes(data), data.bytes, "transform_ast")
  /\ op' = "parse"
  /\ UNCHANGED <<bindings, text, seen, calls>>
  /\ UNCHANGED evars

\* One round of the loop of DialectExpander.transform_ast, given what
\* find_dialectimport_ast found and what the transformers made of the tree.
Round(f, a) ==
  [scanned |-> tree, index |-> f.index, module |-> f.module_absname, names |-> f.names,
   rewritten |-> f.tree, calls |-> a.calls]

AstRound(f, a) ==
  IF f.err # "" THEN Fails(f.err) /\ UNCHANGED <<tree, calls, stages>>
  ELSE IF f.module_absname = <<>>
  THEN /\ pc' = "done"
       /\ stages' = Append(stages, Stage("transform_ast", stages[Len(stages)].output, tree, <<>>))
       /\ UNCHANGED <<tree, calls, err>>
  ELSE IF f.names = <<>>
  THEN tree' = f.tree /\ calls' = Append(calls, Round(f, a)) /\ UNCHANGED <<pc, err, stages>>
  ELSE IF a.err # ""
  THEN Fails(a.err) /\ tree' = a.out /\ calls' = Append(calls, Round(f, a)) /\ UNCHANGED stages
  ELSE tree' = a.out /\ calls' = Append(calls, Round(f, a)) /\ UNCHANGED <<pc, err, stages>>

AstFound(f) ==
  AstRound(f, ApplyDialects("ast", items(f.names, {}), f.bindings, f.tree, <<>>))

AstStep ==
  /\ entry = "expand_dialects"
  /\ pc = "transform_ast"
  /\ Len(calls) < MaxRounds
  /\ AstFound(find_dialectimport_ast(tree, filename))
  /\ op' = "transform_ast"
  /\ UNCHANGED <<bindings, text, seen>>
  /\ UNCHANGED evars

\* --- compile (compiler.py) and source_to_xcode (importer.py), single phase.
\* The dialect expander they use is not the one above: what it gives back is
\* any of the texts and trees that dialects of the kinds at hand can make.
Compiling == entry \in {"compile", "source_to_xcode"}

\* A faulty variant of the order: macro discovery before the dialect AST transforms.
NextStageDiscoveryFirst(stage) ==
  CASE stage = "transform_source" -> "parse"
    [] stage = "parse" -> "find_macros"
    [] stage = "find_macros" -> "transform_ast"
    [] stage = "transform_ast" -> "expand_macros"
    [] stage = "expand_macros" -> "postprocess_ast"
    [] stage = "postprocess_ast" -> "compile"
    [] OTHER -> "compiled"

\* The stage that follows a stage.
NextStage(stage) ==
  CASE stage = "transform_source" -> "parse"
    [] stage = "parse" -> "transform_ast"
    [] stage = "transform_ast" -> "find_macros"
    [] stage = "find_macros" -> "expand_macros"
    [] stage = "expand_macros" -> "postprocess_ast"
    [] stage = "postprocess_ast" -> "compile"
    [] OTHER -> "compiled"

\* A source transformer that turns the lines of its surface syntax into Python.
Translate(t) == [i \in 1..Len(t) |-> IF t[i].k = "alien" THEN CodeLine("t") ELSE t[i]]

\* dexpander.transform_source(text): the texts it can give back, or an error.
transform_source(t) ==
  IF \E i \in 1..Len(t) : t[i].k = "from" /\ t[i].magic = "dialects"
                            /\ t[i].module \notin DOMAIN DialectTable
  THEN {[err |-> "ImportError", text |-> t]}
  ELSE {[err |-> "", text |-> u] : u \in {t, Translate(t), SourceTransform("append", t)}}

\* dexpander.transform_ast(tree): every dialect-import replaced by an import of
\* its module, and what the AST transformers made of the tree.
transform_ast(t) ==
  LET plain == [t EXCEPT !.body = [i \in 1..Len(t.body) |->
                  IF ismacroimport(t.body[i], "dialects")
                  THEN DialectImportReplacement(t.body[i].module, t.body[i])
                  ELSE t.body[i]]]
  IN {plain, AstTransform("append", "A", plain)}

\* dexpander.postprocess_ast(expansion, dialect_instances)
postprocess_ast(expansion) == {expansion, AstTransform("append", "A", expansion)}

fake_lineno == 9999
fake_col_offset == 9999

\* _fill_dummy_location_info(tree)
_fill_dummy_location_info(t) == _fix(t, fake_lineno, fake_col_offset)

\* builtins.compile(tree, filename, mode="exec")
compile(t) == [k |-> "code", of |-> t]

Ran(stage, input, output, table) ==
  /\ stages' = Append(stages, Stage(stage, input, output, table))
  /\ pc' = NextStage(stage)
  /\ UNCHANGED err

\* text = dexpander.transform_source(text)
CTransformSource ==
  /\ Compiling
  /\ pc = "transform_source"
  /\ \E r \in transform_source(text) :
       IF r.err # "" THEN Fails(r.err) /\ UNCHANGED <<text, stages>>
       ELSE text' = r.text /\ Ran("transform_source", text, r.text, <<>>)
  /\ op' = "transform_source"
  /\ UNCHANGED <<tree, bindings, seen, calls>>
  /\ UNCHANGED evars

\* tree = ast.parse(text, filename=filename, mode="exec"); any exception
\* becomes an ImportError
CParsed(p) ==
  IF p.err # "" THEN Fails("ImportError") /\ UNCHANGED <<tree, stages>>
  ELSE tree' = p.tree /\ Ran("parse", text, p.tree, <<>>)

\* A faulty variant: the tree is the parse of the original input.
CParseOriginal ==
  /\ Compiling
  /\ pc = "parse"
  /\ CParsed(ast_parseBytes(data))
  /\ op' = "parse"
  /\ UNCHANGED <<bindings, text, seen, calls>>
  /\ UNCHANGED evars

CParse ==
  /\ Compiling
  /\ pc = "parse"
  /\ CParsed(ast_parse(text))
  /\ op' = "parse"
  /\ UNCHANGED <<bindings, text, seen, calls>>
  /\ UNCHANGED evars

\* tree, dialect_instances = dexpander.transform_ast(tree)
CTransformAst ==
  /\ Compiling
  /\ pc = "transform_ast"
  /\ \E t \in transform_ast(tree) : tree' = t /\ Ran("transform_ast", tree, t, <<>>)
  /\ op' = "transform_ast"
  /\ UNCHANGED <<bindings, text, seen, calls>>
  /\ UNCHANGED evars

\* module_macro_bindings = find_macros(tree, filename=filename)
CFound(r) ==
  /\ tree' = [tree EXCEPT !.body = r.body]
  /\ IF r.err # "" THEN Fails(r.err) /\ UNCHANGED <<bindings, stages>>
     ELSE /\ bindings' = r.bindings
          /\ Ran("find_macros", tree, [tree EXCEPT !.body = r.body], r.bindings)

CFindMacros ==
  /\ Compiling
  /\ pc = "find_macros"
  /\ CFound(find_macros(tree, filename))
  /\ op' = "find_macros"
  /\ UNCHANGED <<text, seen, calls>>
  /\ UNCHANGED evars

\* expansion = expand_macros(tree, bindings=module_macro_bindings, filename=filename)
CExpanded(r) ==
  IF Failed(r) THEN Fails(r.err) /\ UNCHANGED <<tree, stages>>
  ELSE tree' = r.t /\ Ran("expand_macros", tree, r.t, bindings)

CExpandMacros ==
  /\ Compiling
  /\ pc = "expand_macros"
  /\ CExpanded(expand_macros(tree, bindings))
  /\ op' = "expand_macros"
  /\ UNCHANGED <<bindings, text, seen, calls>>
  /\ UNCHANGED evars

\* expansion = dexpander.postprocess_ast(expansion, dialect_instances);
\* check_no_markers_remaining(expansion, filename=filename)
CPostprocess ==
  /\ Compiling
  /\ pc = "postprocess_ast"
  /\ \E t \in postprocess_ast(tree) : tree' = t /\ Ran("postprocess_ast", tree, t, <<>>)
  /\ op' = "postprocess_ast"
  /\ UNCHANGED <<bindings, text, seen, calls>>
  /\ UNCHANGED evars

\* The tree that is handed to the built-in compile: compile fills in dummy
\* locations first, source_to_xcode hands the expansion over as it is.
HandedOver(t) == IF entry = "compile" THEN _fill_dummy_location_info(t) ELSE t

CCompiled(t) == tree' = t /\ Ran("compile", tree, compile(t), <<>>)

CCompile ==
  /\ Compiling
  /\ pc = "compile"
  /\ CCompiled(HandedOver(tree))
  /\ op' = "compile"
  /\ UNCHANGED <<bindings, text, seen, calls>>
  /\ UNCHANGED evars

CNext ==
  \/ Decode \/ SourceStep \/ Parse \/ AstStep
  \/ CTransformSource \/ CParse \/ CTransformAst \/ CFindMacros \/ CExpandMacros
  \/ CPostprocess \/ CCompile

CompilerSpec == CInit /\ [][CNext]_vars

\* ------------------------------------------------------------------ the module registry
\* The names create_module is called with (<<>> for no name).
DottedNames ==
  { <<>>, <<"p">>, <<"p", ".", "m">>, <<"p", ".", "m", ".", "q">>, <<"q", ".", "m">>,
    <<"p", ".">>, <<"1">> }

\* The bodies of the phases of a multi-phase source.
Bodies ==
  { <<>>,
    <<DefMacro("triple", 3)>>,
    <<DefMacro("triple", 2)>>,
    <<SelfImport("triple"), Use("triple", 7)>>,
    <<SelfImport("triple"), Use("triple", 7), DefMacro("twice", 2)>>,
    <<SelfImport("twice"), Use("twice", 7)>>,
    <<SelfImport("triple"), DefMacro("triple", 3)>>,
    <<Use("triple", 7)>> }

\* Phase tables: the body of phase k is at place k + 1; the highest phase is at
\* least 1.
PhaseTables == UNION {[1..(n + 1) -> Bodies] : n \in 1..MaxPhase}

Event(ev, k, module, result) == [ev |-> ev, phase |-> k, module |-> module, result |-> result]

MInit ==
  /\ \/ entry = "create_module" /\ phases = <<>> /\ phase = 0
     \/ entry = "run" /\ phases \in PhaseTables /\ phase = Len(phases)
  /\ sysmodules = <<>> /\ heap = <<>> /\ events = <<>>
  /\ NoImporter
  /\ tree = NoneV
  /\ filename = <<"<dynamically created module>">>
  /\ bindings = <<>>
  /\ pc = "start"
  /\ op = "none"
  /\ prev = NoneV
  /\ log = <<>>
  /\ err = ""
  /\ nv = 0
  /\ runs = 0
  /\ collected = NotCollected
  /\ data = Bytes(<<>>) /\ text = <<>> /\ seen = {} /\ calls = <<>> /\ stages = <<>>

\* The variables the registry and the phases leave alone.
rvars == <<filename, prev, log, nv, runs, collected, entry, data, text, seen, calls, stages,
           phases, files, _xstats_cache, dont_write_bytecode, returned, steps>>

\* module = create_module(dotted_name, filename)
Created(dotted_name, r) ==
  /\ sysmodules' = r.sysmodules
  /\ heap' = r.heap
  /\ err' = r.err
  /\ events' = Append(events, Event("create_module", phase, dotted_name, r.module))

CreateModule ==
  /\ entry = "create_module"
  /\ Len(events) < MaxModules
  /\ \E dotted_name \in DottedNames, fname \in { <<>>, <<"file">> } :
       Created(dotted_name, create_module(dotted_name, fname, sysmodules, heap))
  /\ op' = "create_module"
  /\ UNCHANGED <<tree, bindings, pc, phase>>
  /\ UNCHANGED rvars

\* run(source, module): the module is created first, its name is self_module
\* for the compilation
RunStart ==
  /\ entry = "run"
  /\ pc = "start"
  /\ \E dotted_name \in { <<>>, <<"f">> } :
       Created(dotted_name, create_module(dotted_name, <<>>, sysmodules, heap))
  /\ phase' = PhaseAfter(phase, Len(phases) - 1)
  /\ pc' = "resolve"
  /\ op' = "run"
  /\ UNCHANGED <<tree, bindings>>
  /\ UNCHANGED rvars

\* The module a run executes in, and its name.
FinalModule == 1
self_module == heap[FinalModule].__name__

\* The macro-imports of the phase are resolved.
Resolved(r) ==
  /\ events' = IF \E i \in 1..Len(phases[phase + 1]) : phases[phase + 1][i].k = "selfimport"
               THEN Append(events, Event("resolve", phase, SelfTarget(self_module, phase), r.err))
               ELSE events
  /\ IF r.err # "" THEN Fails(r.err) /\ UNCHANGED bindings
     ELSE bindings' = r.bindings /\ pc' = "expand" /\ UNCHANGED err

PhaseResolve ==
  /\ entry = "run"
  /\ pc = "resolve"
  /\ Resolved(ResolveSelfImports(phases[phase + 1], self_module, phase, sysmodules, heap, <<>>))
  /\ op' = "resolve"
  /\ UNCHANGED <<tree, sysmodules, heap, phase>>
  /\ UNCHANGED rvars

\* The phase is macro-expanded with the bindings found.
PhaseExpand ==
  /\ entry = "run"
  /\ pc = "expand"
  /\ tree' = Module(ExpandPhase(phases[phase + 1], self_module, phase, bindings))
  /\ events' = Append(events, Event("expand", phase, <<>>, ""))
  /\ pc' = "compile"
  /\ op' = "expand"
  /\ UNCHANGED <<bindings, err, sysmodules, heap, phase>>
  /\ UNCHANGED rvars

\* The expansion is compiled.
PhaseCompile ==
  /\ entry = "run"
  /\ pc = "compile"
  /\ events' = Append(events, Event("compile", phase, <<>>, ""))
  /\ pc' = "execute"
  /\ op' = "compile"
  /\ UNCHANGED <<tree, bindings, err, sysmodules, heap, phase>>
  /\ UNCHANGED rvars

\* The code of a phase above 0 runs in a new module registered under the
\* temporary name of the phase; the code of phase 0 runs in the module of the run.
Executed(c, x) ==
  /\ sysmodules' = c.sysmodules
  /\ heap' = [c.heap EXCEPT ![c.module].dict = x.dict]
  /\ events' = events \o
       (IF phase > 0
        THEN <<Event("register", phase, TempName(self_module, phase), c.module)>>
        ELSE <<>>)
       \o <<Event("execute", phase, c.heap[c.module].__name__, x.err)>>
  /\ IF x.err # "" THEN Fails(x.err) /\ UNCHANGED phase
     ELSE /\ phase' = PhaseAfter(phase, Len(phases) - 1)
          /\ pc' = IF PhaseAfter(phase, Len(phases) - 1) < 0 THEN "done" ELSE "resolve"
          /\ UNCHANGED err

PhaseExecute ==
  /\ entry = "run"
  /\ pc = "execute"
  /\ Executed(IF phase > 0
              THEN create_module(TempName(self_module, phase), <<>>, sysmodules, heap)
              ELSE [err |-> "", module |-> FinalModule, sysmodules |-> sysmodules, heap |-> heap],
              Exec(tree.body, <<>>))
  /\ op' = "execute"
  /\ UNCHANGED <<tree, bindings>>
  /\ UNCHANGED rvars

MNext == CreateModule \/ RunStart \/ PhaseResolve \/ PhaseExpand \/ PhaseCompile \/ PhaseExecute

ModuleSpec == MInit /\ [][MNext]_vars

\* ------------------------------------------------------------------ run
\* The module argument of run: None, a module object, a dotted name, or
\* something else.
NoModule == [k |-> "None"]
ByName(name) == [k |-> "str", name |-> name]
NotAModule == [k |-> "int"]

\* A source text that does not parse.
Unparsable == <<[k |-> "alien"]>>

\* _compile(source, filename, optimize, self_module) of a single-phase source
\* without macro-imports: the statements themselves, or the parser's error
_compile(source) ==
  IF \E i \in 1..Len(source) : source[i].k = "alien"
  THEN [err |-> "SyntaxError", code |-> <<>>]
  ELSE [err |-> "", code |-> source]

\* The rest of run, once the module is known: compile, then exec in the
\* module's __dict__.
RunIn(c, x, sm, hp, id) ==
  IF c.err # ""
  THEN [err |-> c.err, module |-> 0, sysmodules |-> sm, heap |-> hp]
  ELSE [err |-> x.err, module |-> IF x.err = "" THEN id ELSE 0, sysmodules |-> sm,
        heap |-> [hp EXCEPT ![id].dict = x.dict]]

RunCode(source, sm, hp, id) ==
  RunIn(_compile(source), Exec(_compile(source).code, hp[id].dict), sm, hp, id)

RunCreated(source, c) == RunCode(source, c.sysmodules, c.heap, c.module)

\* A faulty variant: the code always runs in a module made for the call.
runInNewModule(source, module, sm, hp) == RunCreated(source, create_module(<<>>, <<>>, sm, hp))

\* A variant that takes the module it made out of the registry when the call
\* fails.
runUnregistering(source, module, sm, hp) ==
  LET r == IF module.k = "None" THEN RunCreated(source, create_module(<<>>, <<>>, sm, hp))
           ELSE IF module.k = "str" /\ module.name \in DOMAIN sm
           THEN RunCode(source, sm, hp, sm[module.name])
           ELSE IF module.k = "module" THEN RunCode(source, sm, hp, module.id)
           ELSE [err |-> IF module.k = "str" THEN "ModuleNotFoundError" ELSE "TypeError",
                 module |-> 0, sysmodules |-> sm, heap |-> hp]
  IN IF module.k = "None" /\ r.err # "" THEN [r EXCEPT !.sysmodules = sm] ELSE r

\* run(source, module), on the registry sm and the objects hp
run(source, module, sm, hp) ==
  IF module.k \notin {"None", "module", "str"}
  THEN [err |-> "TypeError", module |-> 0, sysmodules |-> sm, heap |-> hp]
  ELSE IF module.k = "None" THEN RunCreated(source, create_module(<<>>, <<>>, sm, hp))
  ELSE IF module.k = "str"
  THEN IF module.name \notin DOMAIN sm
       THEN [err |-> "ModuleNotFoundError", module |-> 0, sysmodules |-> sm, heap |-> hp]
       ELSE RunCode(source, sm, hp, sm[module.name])
  ELSE RunCode(source, sm, hp, module.id)

\* The sources run is called with.
Sources ==
  { <<SetX(21)>>, <<DoubleX>>, <<SetX(21), Use("triple", 7)>>, Unparsable }

\* The module arguments run is called with.
ModuleArgs ==
  {NoModule, NotAModule, ByName(<<"p">>), ByName(<<"q">>)}
    \cup {ModuleRef(id) : id \in 1..Len(heap)}

\* A call of run, recorded.
Call(source, module, r) ==
  [ev |-> "run", source |-> source, module |-> module, result |-> r.module, err |-> r.err]

RInit ==
  /\ entry = "calls"
  /\ phases = <<>> /\ phase = 0
  /\ sysmodules = <<>> /\ heap = <<>> /\ events = <<>>
  /\ NoImporter
  /\ tree = NoneV
  /\ filename = <<"<dynamically created module>">>
  /\ bindings = <<>>
  /\ pc = "start"
  /\ op = "none"
  /\ prev = NoneV
  /\ log = <<>>
  /\ err = ""
  /\ nv = 0
  /\ runs = 0
  /\ collected = NotCollected
  /\ data = Bytes(<<>>) /\ text = <<>> /\ seen = {} /\ calls = <<>> /\ stages = <<>>

Returned(r, event) ==
  /\ sysmodules' = r.sysmodules
  /\ heap' = r.heap
  /\ err' = r.err
  /\ events' = Append(events, event)

\* mymodule = create_module("p")
RCreateModule ==
  /\ entry = "calls"
  /\ Len(events) < MaxCalls
  /\ Created(<<"p">>, create_module(<<"p">>, <<>>, sysmodules, heap))
  /\ op' = "create_module"
  /\ UNCHANGED <<tree, bindings, pc, phase>>
  /\ UNCHANGED rvars

RunCalled(source, module, r) == Returned(r, Call(source, module, r))

\* run(source, module)
Run ==
  /\ entry = "calls"
  /\ Len(events) < MaxCalls
  /\ \E source \in Sources, module \in ModuleArgs :
       RunCalled(source, module, run(source, module, sysmodules, heap))
  /\ op' = "run"
  /\ UNCHANGED <<tree, bindings, pc, phase>>
  /\ UNCHANGED rvars

RNext == RCreateModule \/ Run

RunSpec == RInit /\ [][RNext]_vars

\* ------------------------------------------------------------------ the importer's operations
\* from module import magicname, m  (level dots before the module name)
MagicImport(module, magicname, level) ==
  ImportFrom(module, <<alias(<<magicname>>, <<>>), alias(<<"m">>, <<>>)>>, level, 1, 0)

\* The statements a.py can hold: macro-imports from pk.b, from pk.b and a
\* dialect-import from pk.c, a self-macro-import with a plain import, a
\* macro-import from its own module, a relative one, one without module name.
BodiesOfA ==
  { <<MagicImport(<<"pk", ".", "b">>, "macros", 0)>>,
    <<MagicImport(<<"pk", ".", "b">>, "macros", 0), MagicImport(<<"pk", ".", "c">>, "dialects", 0)>>,
    <<MagicImport(<<"__self__">>, "macros", 0), MagicImport(<<"pk", ".", "c">>, "m", 0)>>,
    <<MagicImport(<<"a">>, "macros", 0)>>,
    <<MagicImport(<<"b">>, "macros", 1)>>,
    <<MagicImport(<<>>, "macros", 1)>> }

\* The statements pk/b.py can hold: none, a relative macro-import from pk.c, a
\* macro-import from a.
BodiesOfB ==
  { <<>>, <<MagicImport(<<"c">>, "macros", 1)>>, <<MagicImport(<<"a">>, "macros", 0)>> }

XInit ==
  /\ entry = "importer"
  /\ \E a \in BodiesOfA, b \in BodiesOfB :
       files = [path \in Paths |->
                  IF path = "a.py" THEN File(4, a)
                  ELSE IF path = "pk/b.py" THEN File(2, b) ELSE File(6, <<>>)]
  /\ _xstats_cache = <<>>
  /\ dont_write_bytecode \in BOOLEAN
  /\ returned = NoneV
  /\ steps = 0
  /\ NoModules
  /\ tree = NoneV
  /\ filename = <<>>
  /\ bindings = <<>>
  /\ pc = "start"
  /\ op = "none"
  /\ prev = NoneV
  /\ log = <<>>
  /\ err = ""
  /\ nv = 0
  /\ runs = 0
  /\ collected = NotCollected
  /\ data = Bytes(<<>>) /\ text = <<>> /\ seen = {} /\ calls = <<>> /\ stages = <<>>

\* The variables the importer leaves alone.
ivars == <<tree, filename, bindings, pc, prev, log, nv, runs, collected,
           entry, data, text, seen, calls, stages, sysmodules, heap, phases, phase, events,
           dont_write_bytecode>>

Importing == entry = "importer" /\ steps < MaxSteps

XReturned(path, r) ==
  /\ files' = r.files
  /\ _xstats_cache' = r.cache
  /\ returned' = [path |-> path, err |-> r.err, mtime |-> r.mtime, visited |-> r.visited,
                  after |-> op]
  /\ err' = r.err

\* stats = loader.path_stats(path)
PathXstats ==
  /\ Importing
  /\ \E path \in Paths :
       XReturned(path, path_xstats(path, files, _xstats_cache, <<>>, RecursionLimit,
                                   ~dont_write_bytecode))
  /\ op' = "path_xstats"
  /\ steps' = steps + 1
  /\ UNCHANGED ivars

\* The latest modification time of any file.
Now == MaxOf({files[path].st_mtime_ns : path \in Paths})

\* A file is saved again with the same text: its modification time is newer.
Touch ==
  /\ Importing
  /\ \E path \in Paths, later \in 1..2 :
       files' = [files EXCEPT ![path].st_mtime_ns = Now + later]
  /\ op' = "touch"
  /\ steps' = steps + 1
  /\ UNCHANGED <<_xstats_cache, returned, err>>
  /\ UNCHANGED ivars

\* pk/b.py is saved with another text.
Edit ==
  /\ Importing
  /\ files' = [files EXCEPT !["pk/b.py"].st_mtime_ns = Now + 1,
                            !["pk/b.py"].body =
                               IF @ = <<>> THEN <<MagicImport(<<"c">>, "macros", 1)>> ELSE <<>>]
  /\ op' = "edit"
  /\ steps' = steps + 1
  /\ UNCHANGED <<_xstats_cache, returned, err>>
  /\ UNCHANGED ivars

\* A faulty variant: the memo is kept.
invalidate_xcachesKeeping(C) == C

\* invalidate_xcaches: _xstats_cache.clear()
invalidate_xcaches(C) == <<>>

InvalidateXcaches ==
  /\ Importing
  /\ _xstats_cache' = invalidate_xcaches(_xstats_cache)
  /\ op' = "invalidate_xcaches"
  /\ steps' = steps + 1
  /\ UNCHANGED <<files, returned, err>>
  /\ UNCHANGED ivars

XNext == PathXstats \/ Touch \/ Edit \/ InvalidateXcaches

ImporterSpec == XInit /\ [][XNext]_vars

\* ------------------------------------------------------------------ splicing in a dialect
\* The statements of a user module: a docstring, an assignment of __all__, a
\* macro-import, two other statements; each at the given line.
UserStatement(kind, l) ==
  CASE kind = "doc" -> Expr(Constant("doc", l, 0), l, 0)
    [] kind = "all" -> Assign(<<Name("__all__", l, 0)>>, Constant("names", l, 10), l, 0)
    [] kind = "mi" -> ImportFrom(<<"u">>, <<alias(<<"macros">>, <<>>), alias(<<"m">>, <<>>)>>, 0, l, 0)
    [] kind = "with" ->
         With(<<>>, <<ImportFrom(<<"v">>, <<alias(<<"macros">>, <<>>), alias(<<"n">>, <<>>)>>,
                                 0, l + 1, 4),
                      Expr(Name("s3", l + 1, 4), l + 1, 4)>>, l, 0)
    [] OTHER -> Expr(Name(kind, l, 0), l, 0)

UserBodies ==
  UNION { { [i \in 1..n |-> UserStatement(kinds[i], 2 * i)] :
              kinds \in [1..n -> {"doc", "all", "mi", "with", "s1", "s2"}] } :
          n \in 1..MaxStatements }

\* Statements of a template, which have no location.
PasteHere == Expr(Name("__paste_here__", NoLine, NoCol), NoLine, NoCol)
TemplateImport(module) ==
  ImportFrom(<<module>>, <<alias(<<"macros">>, <<>>), alias(<<"m">>, <<>>)>>, 0, NoLine, NoCol)
TemplateStatement(id) == Expr(Name(id, NoLine, NoCol), NoLine, NoCol)

Templates ==
  { <<PasteHere>>,
    <<TemplateImport("t"), TemplateStatement("t1"), PasteHere>>,
    <<TemplateStatement("t1"), PasteHere, TemplateImport("t"), TemplateStatement("t2"),
      TemplateImport("t2")>>,
    <<TemplateImport("t"), With(<<>>, <<TemplateStatement("t1"), PasteHere>>, NoLine, NoCol)>>,
    <<PasteHere, TemplateStatement("t1"), PasteHere>> }

SInit ==
  /\ entry = "splice_dialect"
  /\ \E body \in UserBodies : prev = Module(body)
  /\ \E template \in Templates : tree = Module(template)
  /\ pc = "start"
  /\ op = "none"
  /\ filename = <<>>
  /\ bindings = <<>>
  /\ log = <<>>
  /\ err = ""
  /\ nv = 0
  /\ runs = 0
  /\ collected = NotCollected
  /\ data = Bytes(<<>>) /\ text = <<>> /\ seen = {} /\ calls = <<>>
  /\ stages = <<tree>>
  /\ NoModules
  /\ NoImporter

Spliced(r) ==
  /\ tree' = IF r.err = "" THEN Module(r.t) ELSE tree
  /\ err' = r.err
  /\ pc' = IF r.err = "" THEN "done" ELSE "failed"

\* tree.body = splice_dialect(tree.body, template): prev is the user module,
\* stages[1] the template as given, tree the template before the call and
\* the result after it
SpliceDialect ==
  /\ entry = "splice_dialect"
  /\ pc = "start"
  /\ Spliced(splice_dialect(prev.body, tree.body))
  /\ op' = "splice_dialect"
  /\ UNCHANGED <<filename, bindings, prev, log, nv, runs, collected>>
  /\ UNCHANGED cvars
  /\ UNCHANGED mvars
  /\ UNCHANGED xvars

SNext == SpliceDialect

SpliceSpec == SInit /\ [][SNext]_vars

\* ------------------------------------------------------------------ properties
\* What the invocation log, the tree before and the tree after an operation say.
RanExpander == op \in {"expand_macros", "visit_once"}

\* The module handed to the expander holds one definition.
DecoratedInput == Len(prev.body) = 1 /\ IsDef(prev.body[1])
\* The decorators of that definition that name a macro, in source order
\* (outermost first).
DecoratorMacros ==
  SelectSeq(prev.body[1].decorator_list,
            LAMBDA dd : dd.k = "Name" /\ dd.id \in DOMAIN bindings)
\* The decorator invocations of the last run, in the order they were made.
DecoratorLog == SelectSeq(log, LAMBDA e : e.syntax = "decorator")

\* C1: the macros among the decorators of a definition are applied innermost
\* (last listed) first, and when one of them returns None no decorator macro
\* further out is invoked.
C1_InnermostFirst ==
  (RanExpander /\ DecoratedInput) =>
    /\ Len(DecoratorLog) <= Len(DecoratorMacros)
    /\ \A i \in 1..Len(DecoratorLog) :
         /\ DecoratorLog[i].name = DecoratorMacros[Len(DecoratorMacros) + 1 - i].id
         /\ IsNone(DecoratorLog[i].ret) => i = Len(DecoratorLog)
    /\ (err = "" /\ \A i \in 1..Len(DecoratorLog) : ~IsNone(DecoratorLog[i].ret))
         => Len(DecoratorLog) = Len(DecoratorMacros)

\* Two different decorator macros on one definition, both applied.
C1_Witness ==
  /\ op = "expand_macros" /\ err = "" /\ DecoratedInput
  /\ Len(DecoratorMacros) = 2 /\ Len(DecoratorLog) = 2
  /\ DecoratorMacros[1].id # DecoratorMacros[2].id
  /\ DecoratorLog[1].name = DecoratorMacros[2].id

\* C2: in a chain of decorator macros each macro after the first is given, as its
\* argument tree, what the macro applied before it produced.
C2_ChainedResult ==
  (RanExpander /\ DecoratedInput) =>
    \A i \in 1..(Len(DecoratorLog) - 1) : DecoratorLog[i + 1].tree = DecoratorLog[i].out

\* The module handed to the expander is the statement "m" for a bound name m.
BareName(m) ==
  /\ Len(prev.body) = 1 /\ prev.body[1].k = "Expr"
  /\ prev.body[1].value.k = "Name" /\ prev.body[1].value.id = m

\* C3: only a macro function declared name-eligible is ever invoked by a bare
\* identifier; the bare identifier of any other bound macro stays in the tree.
C3_NameEligibleOnly ==
  RanExpander =>
    /\ \A i \in DOMAIN log : log[i].syntax = "name" => bindings[log[i].name].nm
    /\ \A m \in DOMAIN bindings :
         (BareName(m) /\ ~bindings[m].nm) => (err = "" /\ log = <<>> /\ tree = prev)

\* The bare identifier of a bound macro that is not name-eligible went through
\* the expander.
C3_Witness ==
  /\ op = "expand_macros" /\ err = "" /\ log = <<>>
  /\ \E m \in DOMAIN bindings : BareName(m) /\ ~bindings[m].nm
  /\ tree = prev

\* The name macro of invocation e returned the identifier it was given.
ReturnedOwnName(e) ==
  e.syntax = "name" /\ e.ret.k = "Name" /\ e.ret.id = e.name

\* C4: in a full expansion, a name macro that returns a bare identifier with its
\* own id is not invoked again on what it returned, and an expansion that made
\* only such invocations does not run into the recursion limit; an output that is anything
\* else is expanded further (the next invocation is one that output holds,
\* unless Python's recursion limit ends it).
C4_NameMacroOnce ==
  op = "expand_macros" =>
    /\ \A i \in DOMAIN log :
         (log[i].syntax = "name" /\ IsAST(log[i].ret)) =>
           IF ReturnedOwnName(log[i])
           THEN /\ log[i].out.k = "Name" /\ log[i].out.id = log[i].name
                /\ ~(/\ i < Len(log)
                     /\ log[i + 1].syntax = "name" /\ log[i + 1].name = log[i].name
                     /\ log[i + 1].target = log[i].out)
           ELSE ExpanderDetects(log[i].out, bindings) # {} =>
                  \/ err = "RecursionError"
                  \/ /\ i < Len(log)
                     /\ <<log[i + 1].name, log[i + 1].syntax>>
                          \in ExpanderDetects(log[i].out, bindings)
    /\ (\A i \in DOMAIN log : ReturnedOwnName(log[i])) => err # "RecursionError"

\* A completed expansion in which a name macro returned its own identifier and
\* the identifier is in the result.
C4_Witness ==
  /\ op = "expand_macros" /\ err = ""
  /\ \E i \in DOMAIN log : ReturnedOwnName(log[i])
  /\ ExpanderDetects(tree, bindings) # {}

\* n is a tree as the parser gives it: every attribute that holds a node is in
\* place, every list holds nodes only.
RECURSIVE IsTree(_)
IsTree(n) ==
  LET All(q) == \A i \in 1..Len(q) : IsTree(q[i])
  IN CASE n.k \in {"None", "List", "Done"} -> FALSE
       [] n.k = "Module" -> All(n.body)
       [] n.k = "withitem" -> IsTree(n.context_expr)
       [] n.k = "Expr" -> IsTree(n.value)
       [] n.k = "Subscript" -> IsTree(n.value) /\ IsTree(n.slice)
       [] n.k = "With" -> All(n.items) /\ All(n.body)
       [] IsDef(n) -> All(n.body) /\ All(n.decorator_list)
       [] OTHER -> TRUE

OutputNames ==
  {IF log[i].out.k = "Done" THEN log[i].out.body.id ELSE log[i].out.id :
     i \in {j \in DOMAIN log :
              \/ log[j].out.k = "Name"
              \/ log[j].out.k = "Done" /\ log[j].out.body.k = "Name"}}

RECURSIVE AllLocated(_)
AllLocated(n) ==
  LET All(q) == \A i \in 1..Len(q) : AllLocated(q[i])
      Here == n.lineno # NoLine /\ n.col_offset # NoCol
  IN CASE n.k = "None" -> TRUE
       [] n.k = "List" -> All(n.elts)
       [] n.k = "Module" -> All(n.body)
       [] n.k = "Done" -> AllLocated(n.body)
       [] n.k = "withitem" -> AllLocated(n.context_expr)
       [] n.k = "Expr" -> Here /\ AllLocated(n.value)
       [] n.k = "Subscript" -> Here /\ AllLocated(n.value) /\ AllLocated(n.slice)
       [] n.k = "With" -> Here /\ All(n.items) /\ All(n.body)
       [] IsDef(n) -> Here /\ All(n.body) /\ All(n.decorator_list)
       [] OTHER -> Here

\* Invocation e got back a node without location info, and that node is what
\* stands in the tree for it.
UnlocatedOutput(e) ==
  /\ e.ret.k \in Located /\ e.ret.lineno = NoLine /\ e.ret.col_offset = NoCol
  /\ e.out.k = e.ret.k

RECURSIVE NamesIn(_)
NamesIn(n) ==
  LET All(q) == UNION {NamesIn(q[i]) : i \in 1..Len(q)}
  IN CASE n.k = "Name" -> {n.id}
       [] n.k = "List" -> All(n.elts)
       [] n.k = "Module" -> All(n.body)
       [] n.k = "Done" -> NamesIn(n.body)
       [] n.k = "withitem" -> NamesIn(n.context_expr)
       [] n.k = "Expr" -> NamesIn(n.value)
       [] n.k = "Subscript" -> NamesIn(n.value) \cup NamesIn(n.slice)
       [] n.k = "With" -> All(n.items) \cup All(n.body)
       [] IsDef(n) -> All(n.body) \cup All(n.decorator_list)
       [] OTHER -> {}

\* C7: expand_macros on a tree in which no bound
\* identifier occurs returns the tree as it is, invoking nothing; with an empty
\* binding table the tree comes back without any node having been visited.
C7_Idempotent ==
  op = "expand_macros" =>
    /\ (IsTree(prev) /\ NamesIn(prev) \cap DOMAIN bindings = {})
         => (err = "" /\ log = <<>> /\ tree = prev)
    /\ DOMAIN bindings = {} => (err = "" /\ tree = prev /\ nv = 0)

\* The second expansion of a tree whose first expansion changed it: the tree
\* holds a definition that keeps a decorator, and nodes were visited.
C7_Witness ==
  /\ op = "expand_macros" /\ runs = 2 /\ DOMAIN bindings # {}
  /\ IsTree(prev) /\ NamesIn(prev) \cap DOMAIN bindings = {}
  /\ \E i \in 1..Len(prev.body) : IsDef(prev.body[i]) /\ prev.body[i].decorator_list # <<>>
  /\ Len(prev.body) >= 2
  /\ nv > 0 /\ tree = prev

\* C8: a with statement that lists two or more context items is never
\* dispatched as a block macro, and keeps all its context items.
C8_MultiItemWithUntouched ==
  RanExpander =>
    /\ \A i \in DOMAIN log : log[i].syntax = "block" => Len(log[i].target.items) = 1
    /\ (err = "" /\ Len(prev.body) = 1 /\ prev.body[1].k = "With"
        /\ Len(prev.body[1].items) >= 2)
         => /\ Len(tree.body) = 1 /\ tree.body[1].k = "With"
            /\ Len(tree.body[1].items) = Len(prev.body[1].items)

\* C9: what MacroCollector collects on a tree is what the expander would detect
\* on it, at every depth, and it is empty exactly when a one-layer pass over the
\* same tree invokes no macro.
C9_CollectorAgrees ==
  /\ collected.st = "cur" =>
       (collected.err = "" /\ collected.collected = ExpanderDetects(tree, bindings))
  /\ (collected.st = "prev" /\ op = "visit_once") =>
       (collected.err = "" /\ (collected.collected = {} <=> log = <<>>))

\* The names a macro-import asks for, macros aside.
ImportedNames(statement) ==
  {IF statement.names[i].asname # <<>> THEN statement.names[i].asname
   ELSE statement.names[i].name : i \in 2..Len(statement.names)}

\* new is "import M" for the absolute name M of the module old names, at the
\* place of old.
IsAbsoluteImportOf(new, old) ==
  /\ new.k = "Import" /\ Len(new.names) = 1 /\ new.names[1].asname = <<>>
  /\ new.lineno = old.lineno /\ new.col_offset = old.col_offset
  /\ LET M == new.names[1].name
     IN /\ M \in DOMAIN ModuleTable
        /\ Len(M) >= Len(old.module)
        /\ SubSeq(M, Len(M) - Len(old.module) + 1, Len(M)) = old.module
        /\ old.level = 0 => M = old.module
        /\ old.level > 0 => (Len(M) > Len(old.module) /\ M[1] # ".")

\* The statements of the body are where they were, each macro-import replaced
\* by an absolute import that satisfies Binds.
Rewritten(Binds(_, _)) ==
  /\ Len(tree.body) = Len(prev.body)
  /\ \A i \in 1..Len(prev.body) :
       IF prev.body[i].k = "ImportFrom" /\ prev.body[i].names[1] = alias(<<"macros">>, <<>>)
       THEN IsAbsoluteImportOf(tree.body[i], prev.body[i]) /\ Binds(tree.body[i], prev.body[i])
       ELSE tree.body[i] = prev.body[i]

BindsNoneOf(new, old) ==
  BoundNames(new) \cap ({<<"macros">>} \cup ImportedNames(old)) = {}

BindsTopLevelOnly(new, old) ==
  BoundNames(new) = {<<new.names[1].name[1]>>}

\* C10 as stated: find_macros puts "import M" (M absolute) where each
\* macro-import stood, a statement that binds neither macros nor any imported
\* name; the other statements, the length and the order of the body stay.
C10_ImportBindsNoImportedName ==
  (op = "find_macros" /\ err = "") => Rewritten(BindsNoneOf)

\* C10: find_macros puts "import M" (M absolute, relative imports resolved)
\* where each macro-import stood; the statement binds the top-level package of
\* M and nothing else, so macros and the imported names are bound only when one
\* of them is that package name; the other statements, the length and the
\* order of the body stay.
C10_ImportBindsTopLevelOnly ==
  (op = "find_macros" /\ err = "") => Rewritten(BindsTopLevelOnly)

\* A relative macro-import was rewritten next to a statement that is none.
C10_Witness ==
  /\ op = "find_macros" /\ err = "" /\ Len(prev.body) = 2
  /\ \E i \in {1, 2} :
       /\ prev.body[i].k = "ImportFrom" /\ prev.body[i].level > 0
       /\ tree.body[i].k = "Import"
       /\ prev.body[3 - i].k = "Expr"
  /\ DOMAIN bindings # {}

\* The first macro-import among the statements of a body (0 when there is none).
FirstMacroImport(body) ==
  LET is == {i \in 1..Len(body) : _is_macro_import(body[i])}
  IN IF is = {} THEN 0 ELSE CHOOSE i \in is : \A j \in is : i <= j

\* The directory of the file is a search root / lies under no search root.
AtSearchRoot(fn) == \E i \in 1..Len(SysPath) : Parent(fn) = SysPath[i]
OutsideSearchRoots(fn) == \A i \in 1..Len(SysPath) : ~StartsWith(Parent(fn), SysPath[i])

\* find_macros ran on a body whose first macro-import satisfies Case.
DiscoveryMet(Case(_)) ==
  /\ op = "find_macros"
  /\ FirstMacroImport(prev.body) > 0
  /\ Case(prev.body[FirstMacroImport(prev.body)])

NoModuleName(s) == s.module = <<>>
RelativeAtRoot(s) == s.module # <<>> /\ s.level > 0 /\ AtSearchRoot(filename)
RelativeOutside(s) == s.module # <<>> /\ s.level > 0 /\ OutsideSearchRoots(filename)

\* Discovery ended with the exception e and handed no binding table back.
FatalWith(e) == err = e /\ pc = "failed" /\ DOMAIN bindings = {}

\* C11 as stated: binding discovery ends with a SyntaxError, and returns no
\* binding table, for a macro-import without module name and for a relative
\* macro-import in a file whose directory is a search root or lies outside
\* every search root.
C11_UnresolvableIsSyntaxError ==
  /\ DiscoveryMet(NoModuleName) => FatalWith("SyntaxError")
  /\ DiscoveryMet(RelativeAtRoot) => FatalWith("SyntaxError")
  /\ DiscoveryMet(RelativeOutside) => FatalWith("SyntaxError")

\* C11: binding discovery ends with a SyntaxError for a macro-import without
\* module name and for a relative macro-import in a file whose directory is a
\* search root; for a relative macro-import in a file outside every search
\* root it ends with an ImportError; in each case no binding table is returned.
C11_UnresolvableIsFatal ==
  /\ DiscoveryMet(NoModuleName) => FatalWith("SyntaxError")
  /\ DiscoveryMet(RelativeAtRoot) => FatalWith("SyntaxError")
  /\ DiscoveryMet(RelativeOutside) => FatalWith("ImportError")

\* Discovery failed on a relative macro-import of a file at a search root,
\* after a statement that is no macro-import.
C11_Witness ==
  /\ DiscoveryMet(RelativeAtRoot) /\ FirstMacroImport(prev.body) = 2
  /\ FatalWith("SyntaxError")

\* ------------------------------------------------------------------ dialect expansion
\* The dialect-import lines the pattern finds in a text, each once, in order.
RECURSIVE Unique(_, _)
Unique(lines, done) ==
  IF lines = <<>> THEN <<>>
  ELSE IF Head(lines) \in done THEN Unique(Tail(lines), done)
  ELSE <<Head(lines)>> \o Unique(Tail(lines), done \cup {Head(lines)})

\* All the names of the lines are dialect classes of the module d.
NamesDialectClasses(lines) ==
  \A i \in 1..Len(lines) :
    /\ lines[i].module = <<"d">>
    /\ \A j \in 1..Len(lines[i].names) :
         /\ lines[i].names[j] \in DOMAIN DialectTable[<<"d">>]
         /\ DialectTable[<<"d">>][lines[i].names[j]].kind = "class"

\* The source transformers of the names of one line, then of the next lines,
\* each applied to what the one before gave back.
RECURSIVE SourceChain(_, _)
SourceChain(lines, t) ==
  IF lines = <<>> THEN t
  ELSE LET names == items(Head(lines).names, {})
           F[i \in 0..Len(names)] ==
             IF i = 0 THEN t
             ELSE SourceTransform(DialectTable[<<"d">>][names[i]].st, F[i - 1])
       IN SourceChain(Tail(lines), F[Len(names)])

\* C12: DialectExpander.transform_source applies the source transformer of each
\* distinct dialect-import line once, in the order of the lines: when the lines
\* name dialect classes, it ends without error with the text that the chain of
\* their transformers gives.
C12_EachDialectLineOnce ==
  (/\ entry = "expand_dialects" /\ op = "transform_source"
   /\ NamesDialectClasses(finditer(_decode_source_content(data))))
    => /\ err = ""
       /\ pc = "parse" =>
            text = SourceChain(Unique(finditer(_decode_source_content(data)), {}),
                               _decode_source_content(data))

RoundResult(r) == IF r.calls = <<>> THEN r.rewritten ELSE r.calls[Len(r.calls)].out

\* In round r the first dialect-import of the scanned body, and nothing else,
\* was replaced by a plain import of its module, at the same place.
RewrittenFirst(r) ==
  /\ r.index = FirstDialectImport(r.scanned.body) /\ r.index > 0
  /\ r.rewritten.k = "Module" /\ Len(r.rewritten.body) = Len(r.scanned.body)
  /\ \A j \in 1..Len(r.scanned.body) :
       IF j = r.index
       THEN /\ r.rewritten.body[j].k = "Import"
            /\ r.rewritten.body[j].names = <<alias(r.scanned.body[j].module, <<>>)>>
            /\ r.rewritten.body[j].lineno = r.scanned.body[j].lineno
            /\ r.rewritten.body[j].col_offset = r.scanned.body[j].col_offset
       ELSE r.rewritten.body[j] = r.scanned.body[j]

\* C14: a dialect's transform_ast is called on the whole module tree in which
\* the dialect-import that names it is already replaced by a plain import of the
\* module (a later dialect of the same import gets what the one before gave
\* back), and the next dialect-import is looked for from the first statement of
\* the tree the transformers returned.
C14_TransformAfterRewrite ==
  \A i \in 1..Len(calls) :
    LET r == calls[i]
    IN /\ RewrittenFirst(r)
       /\ \A j \in 1..Len(r.calls) :
            /\ r.calls[j].name = items(r.names, {})[j]
            /\ r.calls[j].arg = IF j = 1 THEN r.rewritten ELSE r.calls[j - 1].out
            /\ r.calls[j].arg.k = "Module"
       /\ i < Len(calls) => calls[i + 1].scanned = RoundResult(r)
       /\ (i = Len(calls) /\ pc \in {"transform_ast", "done"}) => tree = RoundResult(r)

\* A transformer changed the tree it was given, and the next round found a
\* dialect-import at or before the place of the one just replaced.
C14_Witness ==
  /\ Len(calls) >= 2
  /\ calls[1].calls # <<>> /\ calls[1].calls[1].out # calls[1].calls[1].arg
  /\ calls[2].index <= calls[1].index
  /\ calls[2].calls # <<>>

\* The places of the dialect-imports in a body.
DialectImports(body) == {i \in 1..Len(body) : ismacroimport(body[i], "dialects")}

\* Some AST transformer gave back a tree with more dialect-imports at the top
\* level than the tree it was given.
InsertedDialectImport ==
  \E i \in 1..Len(calls) : \E j \in 1..Len(calls[i].calls) :
    Cardinality(DialectImports(calls[i].calls[j].out.body))
      > Cardinality(DialectImports(calls[i].calls[j].arg.body))

\* C15: unless an AST transformer inserts a dialect-import, transform_ast comes
\* to an end: every round that goes on to another one leaves fewer
\* dialect-imports at the top level than it found, so there are at most as many
\* rounds as the parsed body has dialect-imports; when transform_ast returns, no
\* dialect-import is left at the top level; and a round ends the loop exactly
\* when the body it scans has no dialect-import.
C15_TransformAstTerminates ==
  /\ [][(entry = "expand_dialects" /\ pc = "transform_ast" /\ pc' = "transform_ast"
         /\ ~InsertedDialectImport')
          => Cardinality(DialectImports(tree'.body)) < Cardinality(DialectImports(tree.body))]_vars
  /\ []((entry = "expand_dialects" /\ calls # <<>> /\ ~InsertedDialectImport)
          => Len(calls) <= Cardinality(DialectImports(calls[1].scanned.body)))
  /\ [](entry = "expand_dialects" /\ pc = "done" => DialectImports(tree.body) = {})
  /\ [][(entry = "expand_dialects" /\ pc = "transform_ast" /\ pc' # "failed")
          => (pc' = "done" <=> DialectImports(tree.body) = {})]_vars

\* transform_ast returned after two rounds, one of them with a transformer call.
C15_Witness ==
  /\ entry = "expand_dialects" /\ pc = "done"
  /\ Len(calls) >= 2 /\ \E i \in 1..Len(calls) : calls[i].calls # <<>>
  /\ ~InsertedDialectImport

\* The kinds of the attributes that the names of round r are bound to.
KindsOf(r) == {DialectTable[r.module][r.names[j]].kind : j \in 1..Len(r.names)}

ImportErrorClass == {"ImportError", "ModuleNotFoundError"}

\* C16: when every name of a dialect-import is a class derived from Dialect,
\* each is instantiated and its transformer is applied to the whole tree; a name
\* bound to something that is no dialect ends dialect expansion with an
\* ImportError-class error.
C16_DialectClassesAccepted ==
  \A i \in 1..Len(calls) :
    LET r == calls[i]
    IN /\ (r.names # <<>> /\ KindsOf(r) = {"class"}) =>
            /\ Len(r.calls) = Len(items(r.names, {}))
            /\ \A j \in 1..Len(r.calls) : r.calls[j].arg.k = "Module"
       /\ "function" \in KindsOf(r) =>
            (i = Len(calls) /\ pc = "failed" /\ err \in ImportErrorClass)

\* ------------------------------------------------------------------ the compilation pipeline
StageOrder ==
  <<"transform_source", "parse", "transform_ast", "find_macros", "expand_macros",
    "postprocess_ast", "compile">>

\* C17: a single-phase compilation from source text runs the dialect source
\* transforms, the parse, the dialect AST transforms, macro discovery, macro
\* expansion, the fix-ups after expansion and the hand-over to the built-in
\* compile in this order, each on what the stage before gave back; discovery
\* starts on the tree the dialect AST transforms returned, and the table it
\* returns is the one the expansion is made with.
C17_StageOrder ==
  Compiling =>
    /\ Len(stages) <= Len(StageOrder)
    /\ \A i \in 1..Len(stages) : stages[i].stage = StageOrder[i]
    /\ \A i \in 2..Len(stages) : stages[i].input = stages[i - 1].output
    /\ Len(stages) >= 1 => stages[1].input = _decode_source_content(data)
    /\ Len(stages) >= 5 =>
         /\ stages[5].table = stages[4].table
         /\ ~Failed(expand_macros(stages[5].input, stages[4].table))
         /\ stages[5].output = expand_macros(stages[5].input, stages[4].table).t
    /\ pc = "compiled" <=> Len(stages) = Len(StageOrder)

\* A compilation went through all stages: the source transforms changed the
\* text, discovery found macros and the expansion changed the tree.
C17_Witness ==
  /\ Compiling /\ pc = "compiled"
  /\ stages[1].output # stages[1].input
  /\ DOMAIN stages[4].table # {}
  /\ stages[5].output # stages[5].input

\* ------------------------------------------------------------------ C18
\* The steps of the phases in the events of a run (the creation of the module
\* of the run is not one).
PhaseSteps == {i \in 1..Len(events) : events[i].ev # "create_module"}

\* The highest phase of the source.
HighestPhase == Len(phases) - 1

\* C18: the phases are processed in strictly descending phase number, from the
\* highest one, none skipped; and before any macro-import of phase N-1 is
\* resolved and before phase N-1 is expanded, phase N has been expanded,
\* compiled, executed and registered as a module of the registry.
C18_DescendingPhases ==
  entry = "run" =>
    /\ \A i \in PhaseSteps : \A j \in PhaseSteps : i < j => events[i].phase >= events[j].phase
    /\ \A j \in PhaseSteps :
         \/ events[j].phase = HighestPhase
         \/ /\ events[j].phase < HighestPhase
            /\ events[j].phase >= 0
            /\ \A ev \in {"expand", "compile", "execute"} :
                 \E i \in 1..(j - 1) :
                   events[i].ev = ev /\ events[i].phase = events[j].phase + 1 /\ events[i].result = ""
            /\ \E i \in 1..(j - 1) :
                 /\ events[i].ev = "register"
                 /\ events[i].phase = events[j].phase + 1
                 /\ events[i].module \in DOMAIN sysmodules
                 /\ sysmodules[events[i].module] = events[i].result

\* A source of three phases has run to the end; phases 1 and 0 each resolved a
\* self-macro-import.
C18_Witness ==
  /\ entry = "run"
  /\ pc = "done"
  /\ HighestPhase = 2
  /\ \E i \in PhaseSteps : events[i].ev = "resolve" /\ events[i].phase = 1
  /\ \E i \in PhaseSteps : events[i].ev = "resolve" /\ events[i].phase = 0
  /\ "result" \in DOMAIN heap[FinalModule].dict
  /\ heap[FinalModule].dict["result"] = IntValue(14)

\* ------------------------------------------------------------------ C19
\* The names a body macro-imports from __self__.
SelfImported(body) == {body[i].name : i \in {j \in 1..Len(body) : body[j].k = "selfimport"}}

\* The temporary module of phase k of the run, if it is registered.
Temporary(k) == heap[sysmodules[<<"__phase" \o ToString(k) \o "_" \o self_module[1]>>]]

\* The source of the scenario: phase 1 defines the macro triple, phase 0
\* imports it from __self__ and invokes it on 7.
TripleSource(factor) ==
  <<  <<SelfImport("triple"), Use("triple", 7)>>,  <<DefMacro("triple", factor)>>  >>

LastCall == events[Len(events)]

\* A dotted name "p.m": two or more identifiers separated by dots.
IsDotted(name) ==
  /\ \E i \in 1..Len(name) : name[i] = "."
  /\ \A i \in 1..Len(name) : (name[i] = ".") <=> (i % 2 = 0)
  /\ Len(name) % 2 = 1
  /\ \A i \in 1..Len(name) : name[i] \notin Numerals

\* The dotted name of the parent package of a dotted name.
ParentOf(name) == SubSeq(name, 1, Len(name) - 2)

\* C20: create_module obeys package semantics on the module registry. For a
\* dotted name p.m whose parent p is not registered the call fails with
\* ModuleNotFoundError and leaves the registry and every module's namespace as
\* they were; when p is registered the call registers the new module under p.m
\* (whatever was registered there before), sets its package to p and binds it
\* as attribute m of the package p; a module created with an undotted name has
\* no package.
C20_PackageSemantics ==
  [][(entry = "create_module" /\ events' # events) =>
       LET call == events'[Len(events')]
           name == call.module
       IN /\ (IsDotted(name) /\ ParentOf(name) \notin DOMAIN sysmodules) =>
               /\ err' = "ModuleNotFoundError"
               /\ sysmodules' = sysmodules
               /\ heap' = heap
          /\ (IsDotted(name) /\ ParentOf(name) \in DOMAIN sysmodules) =>
               /\ err' = ""
               /\ call.result \notin DOMAIN heap
               /\ DOMAIN sysmodules' = DOMAIN sysmodules \cup {name}
               /\ sysmodules'[name] = call.result
               /\ \A other \in DOMAIN sysmodules : other # name => sysmodules'[other] = sysmodules[other]
               /\ heap'[call.result].__name__ = name
               /\ heap'[call.result].__package__ = ParentOf(name)
               /\ name[Len(name)] \in DOMAIN heap'[sysmodules[ParentOf(name)]].dict
               /\ heap'[sysmodules[ParentOf(name)]].dict[name[Len(name)]] = ModuleRef(call.result)
          /\ (Len(name) = 1 /\ name[1] \notin Numerals) =>
               /\ err' = ""
               /\ sysmodules'[name] = call.result
               /\ heap'[call.result].__package__ = <<>>
    ]_vars

\* A call for p.m has failed for want of p; then p was created, then p.m, and
\* then p.m again, which replaced the entry of the registry and the attribute
\* of the package.
C20_Witness ==
  /\ entry = "create_module"
  /\ Len(events) = 4
  /\ events[1].module = <<"p", ".", "m">> /\ events[1].result = 0
  /\ events[2].module = <<"p">> /\ events[2].result = 1
  /\ events[3].module = <<"p", ".", "m">> /\ events[3].result = 2
  /\ events[4].module = <<"p", ".", "m">> /\ events[4].result = 3
  /\ sysmodules[<<"p", ".", "m">>] = 3
  /\ heap[3].__package__ = <<"p">>
  /\ heap[1].__package__ = <<>>
  /\ heap[1].dict["m"] = ModuleRef(3)

\* ------------------------------------------------------------------ C21
\* The call that the step has just recorded.
NewCall == events'[Len(events')]

\* The module object an argument of run names in the registry sm (0: none).
Given(module, sm) ==
  IF module.k = "module" THEN module.id
  ELSE IF module.k = "str" /\ module.name \in DOMAIN sm THEN sm[module.name]
  ELSE 0

\* The calls so far are run("x = 21") and then only run("x = 2 * x", module)
\* with the module the first call returned, by object or by name.
DoublingRuns ==
  /\ Len(events) >= 1
  /\ events[1].ev = "run" /\ events[1].source = <<SetX(21)>> /\ events[1].module = NoModule
  /\ \A i \in 2..Len(events) :
       /\ events[i].ev = "run" /\ events[i].source = <<DoubleX>>
       /\ events[i].module = ModuleRef(events[1].result)

\* C21: run(source, module) executes the code in the namespace of the module it
\* is given and returns that module: a later run sees and updates what earlier
\* runs bound (x = 21 and then n runs of x = 2 * x leave x = 21 * 2^n), and a
\* run in an existing module makes no module and leaves the module's name,
\* file, package and registry entry alone.
C21_RunsInGivenModule ==
  /\ [][(entry = "calls" /\ op' = "run" /\ events' # events
          /\ Given(NewCall.module, sysmodules) # 0) =>
         LET id == Given(NewCall.module, sysmodules)
         IN /\ NewCall.err = "" => NewCall.result = id
            /\ Len(heap') = Len(heap)
            /\ sysmodules' = sysmodules
            /\ heap'[id].__name__ = heap[id].__name__
            /\ heap'[id].__file__ = heap[id].__file__
            /\ heap'[id].__package__ = heap[id].__package__
            /\ \A other \in DOMAIN heap : other # id => heap'[other] = heap[other]
            /\ (NewCall.err = "" /\ NewCall.source = <<DoubleX>>) =>
                 /\ "x" \in DOMAIN heap[id].dict
                 /\ heap'[id].dict["x"] = IntValue(2 * heap[id].dict["x"].v)
                 /\ \A key \in DOMAIN heap[id].dict : key # "x" =>
                      heap'[id].dict[key] = heap[id].dict[key]
       ]_vars
  /\ [](DoublingRuns =>
         /\ \A i \in 1..Len(events) : events[i].err = "" /\ events[i].result = events[1].result
         /\ heap[events[1].result].dict["x"] = IntValue(21 * 2^(Len(events) - 1)))

\* x = 21 has run in a new module and x = 2 * x twice in that module: x is 84
\* and there is still one module.
C21_Witness ==
  /\ entry = "calls"
  /\ DoublingRuns
  /\ Len(events) = 3
  /\ Len(heap) = 1
  /\ heap[1].dict["x"] = IntValue(84)

\* ------------------------------------------------------------------ C29
\* The step is a call of run that failed, made without a module or with a name
\* that is not registered.
FailedRun ==
  /\ entry = "calls" /\ op' = "run" /\ events' # events
  /\ NewCall.err # ""
  /\ \/ NewCall.module = NoModule
     \/ NewCall.module.k = "str" /\ NewCall.module.name \notin DOMAIN sysmodules

\* C29 as claimed: when run(source) without a module fails in expansion,
\* compilation or execution, or run is given a name that is not registered, the
\* registry is after the call as it was before: no module made for the call
\* stays registered and no code has run in a registered module.
C29_FailedRunLeavesRegistry ==
  [][FailedRun =>
       /\ sysmodules' = sysmodules
       /\ \A name \in DOMAIN sysmodules' :
            /\ sysmodules'[name] \in DOMAIN heap
            /\ heap'[sysmodules'[name]] = heap[sysmodules'[name]]
    ]_vars

\* C29, amended: a run given a name that is not registered changes nothing; a
\* run without a module that fails leaves every entry the registry had and
\* every module there was as they were, and adds one entry, the module made for
\* the call, which holds what the code bound before it failed.
C29_FailedRunKeepsNewModule ==
  [][FailedRun =>
       /\ \A name \in DOMAIN sysmodules :
            name \in DOMAIN sysmodules' /\ sysmodules'[name] = sysmodules[name]
       /\ \A id \in DOMAIN heap : heap'[id] = heap[id]
       /\ NewCall.module # NoModule => (sysmodules' = sysmodules /\ heap' = heap
                                         /\ NewCall.err = "ModuleNotFoundError")
       /\ NewCall.module = NoModule =>
            /\ Len(heap') = Len(heap) + 1
            /\ heap'[Len(heap')].__name__ \notin DOMAIN sysmodules
            /\ DOMAIN sysmodules' = DOMAIN sysmodules \cup {heap'[Len(heap')].__name__}
            /\ sysmodules'[heap'[Len(heap')].__name__] = Len(heap')
            /\ (NewCall.source = <<SetX(21), Use("triple", 7)>>) =>
                 heap'[Len(heap')].dict = SetItem(<<>>, "x", IntValue(21))
    ]_vars

\* A run without a module has failed after its first statement, with another
\* module registered before it; and a run by an unregistered name has failed.
C29_Witness ==
  /\ entry = "calls"
  /\ Len(events) = 3
  /\ events[1].ev = "create_module"
  /\ events[2].ev = "run" /\ events[2].module = NoModule /\ events[2].err = "NameError"
  /\ events[2].source = <<SetX(21), Use("triple", 7)>>
  /\ events[3].ev = "run" /\ events[3].module = ByName(<<"q">>)
  /\ events[3].err = "ModuleNotFoundError"
  /\ Len(heap) = 2
  /\ heap[2].__name__ \in DOMAIN sysmodules

\* ------------------------------------------------------------------ C22
\* The module a macro-import or dialect-import statement of the file at path
\* names, as an absolute dotted name.
Imported(stmt, path) ==
  IF stmt.level = 0 THEN stmt.module ELSE <<"pk", ".">> \o stmt.module

\* The files that the source of the file at path macro-imports or
\* dialect-imports from, at its top level.
Deps(path) ==
  { FindSpec[Imported(files[path].body[i], path)] :
      i \in { j \in 1..Len(files[path].body) :
                /\ files[path].body[j].names[1].name \in { <<"macros">>, <<"dialects">> }
                /\ Imported(files[path].body[j], path) \in DOMAIN FindSpec } }

\* The files reachable from those of S along the imports, S included.
RECURSIVE Reach(_)
Reach(S) ==
  IF UNION {Deps(path) : path \in S} \subseteq S THEN S
  ELSE Reach(S \cup UNION {Deps(path) : path \in S})

\* The macro-dependency closure of a file: the file and all it depends on.
Closure(path) == Reach({path})

\* No file of the closure depends on itself.
Acyclic(path) == \A q \in Closure(path) : q \notin Reach(Deps(q))

\* The step is a call of path_xstats that returned a result.
XstatsReturned ==
  /\ entry = "importer" /\ op' = "path_xstats" /\ steps' # steps
  /\ returned'.err = ""

\* C22: for a file with an acyclic macro-dependency graph, a path_xstats(path)
\* that is not answered from the memo returns the maximum of the file's own
\* modification time and of the times path_xstats gives for every module the
\* file macro-imports or dialect-imports, recursively: with an empty memo, the
\* maximum over the whole closure. Imports that resolve to no module add nothing.
C22_MtimeIsMaxOverImports ==
  [][(XstatsReturned /\ returned'.path \notin DOMAIN _xstats_cache
        /\ Acyclic(returned'.path)) =>
       /\ Deps(returned'.path) \subseteq DOMAIN _xstats_cache'
       /\ returned'.mtime =
            MaxOf({Seconds(files[returned'.path].st_mtime_ns)}
                  \cup {_xstats_cache'[d] : d \in Deps(returned'.path)})
       /\ _xstats_cache = <<>> =>
            returned'.mtime =
              MaxOf({Seconds(files[q].st_mtime_ns) : q \in Closure(returned'.path)})
    ]_vars

\* path_xstats("a.py") has computed the times of a.py, pk/b.py and pk/c.py, and
\* the time it returned is that of pk/c.py, newer than that of a.py.
C22_Witness ==
  /\ entry = "importer"
  /\ op = "path_xstats"
  /\ returned.path = "a.py" /\ returned.err = ""
  /\ Len(returned.visited) = 3
  /\ returned.mtime = Seconds(files["pk/c.py"].st_mtime_ns)
  /\ returned.mtime > Seconds(files["a.py"].st_mtime_ns)

\* ------------------------------------------------------------------ C23
\* C23 as claimed: when a file anywhere in the macro-dependency closure of path
\* has got a newer modification time, the next path_xstats(path) reports a time
\* at least that new: the time returned is never older than that of any file of
\* the closure.
C23_ChangeIsReported ==
  [][XstatsReturned =>
       \A q \in Closure(returned'.path) :
         returned'.mtime >= Seconds(files[q].st_mtime_ns)
    ]_vars

\* C23, amended: the time path_xstats(path) returns is at least that of every
\* file of the closure of path when neither path nor any file of the closure is
\* in the memo, as in a new process or after invalidate_xcaches; a memoized
\* time is returned as it is.
C23_ChangeIsReportedUnlessMemoized ==
  [][XstatsReturned =>
       /\ Closure(returned'.path) \cap DOMAIN _xstats_cache = {} =>
            \A q \in Closure(returned'.path) :
              returned'.mtime >= Seconds(files[q].st_mtime_ns)
       /\ returned'.path \in DOMAIN _xstats_cache =>
            returned'.mtime = _xstats_cache[returned'.path]
    ]_vars

\* pk/c.py has been saved again, and a path_xstats("a.py") that found nothing
\* in the memo has gone through a.py, pk/b.py and pk/c.py and returned the new
\* time of pk/c.py.
C23_Witness ==
  /\ entry = "importer"
  /\ op = "path_xstats"
  /\ returned.path = "a.py" /\ returned.err = ""
  /\ Len(returned.visited) = 3
  /\ files["pk/c.py"].st_mtime_ns > 6
  /\ returned.mtime = Seconds(files["pk/c.py"].st_mtime_ns)

\* ------------------------------------------------------------------ C24
\* The latest modification time in the closure of a file, as a float.
LatestIn(path) == MaxOf({Seconds(files[q].st_mtime_ns) : q \in Closure(path)})

\* C24: invalidate_xcaches empties the memo for every path, and the first
\* path_xstats(path) after it computes its result anew from the current
\* modification times of the file and of its whole closure: every file of the
\* closure is computed again and what is memoized then is current.
C24_InvalidationForgetsAll ==
  /\ [][(entry = "importer" /\ op' = "invalidate_xcaches" /\ steps' # steps) =>
          /\ DOMAIN _xstats_cache' = {}
          /\ files' = files
       ]_vars
  /\ [][(XstatsReturned /\ op = "invalidate_xcaches") =>
          /\ returned'.mtime = LatestIn(returned'.path)
          /\ {returned'.visited[i].path : i \in 1..Len(returned'.visited)}
               = Closure(returned'.path)
          /\ DOMAIN _xstats_cache' = Closure(returned'.path)
          /\ \A q \in Closure(returned'.path) : _xstats_cache'[q] = LatestIn(q)
       ]_vars

\* After an invalidation path_xstats("a.py") has computed a.py, pk/b.py and
\* pk/c.py again and returned the time pk/c.py got when it was saved again.
C24_Witness ==
  /\ entry = "importer"
  /\ op = "path_xstats"
  /\ returned.after = "invalidate_xcaches"
  /\ returned.path = "a.py" /\ returned.err = ""
  /\ Len(returned.visited) = 3
  /\ files["pk/c.py"].st_mtime_ns > 6
  /\ returned.mtime = Seconds(files["pk/c.py"].st_mtime_ns)
  /\ steps >= 4

\* ------------------------------------------------------------------ C25
\* The statements of the current source of a file that import the given magic
\* name first.
SourceImports(path, magicname) ==
  SelectSeq(files[path].body, LAMBDA stmt : stmt.names[1].name = <<magicname>>)

\* The places of the record of a call where a file is looked at for the first
\* time in the call.
FirstVisits(visited) ==
  {i \in 1..Len(visited) : \A j \in 1..(i - 1) : visited[j].path # visited[i].path}

\* C25: path_xstats uses the import lists of a file's side-cache entry only
\* when the timestamp stored there equals the file's current one; otherwise it
\* takes the macro-imports and dialect-imports from the current source and,
\* when writing is enabled, overwrites the entry with the current timestamp,
\* both lists and the relative-import flag, which is true exactly when a listed
\* import is relative.
C25_SideCacheByTimestamp ==
  [][(entry = "importer" /\ op' = "path_xstats" /\ steps' # steps) =>
       \A i \in FirstVisits(returned'.visited) :
         LET v == returned'.visited[i]
             old == files[v.path].pickle
             now == files[v.path].st_mtime_ns
             listed == SourceImports(v.path, "macros") \o SourceImports(v.path, "dialects")
         IN /\ v.cache_valid <=> (old.k = "pickle" /\ old.st_mtime_ns = now)
            /\ v.cache_valid =>
                 /\ v.imports = old.macroimports \o old.dialectimports
                 /\ files'[v.path].pickle = old
            /\ ~v.cache_valid =>
                 /\ v.imports = listed
                 /\ dont_write_bytecode => files'[v.path].pickle = old
                 /\ ~dont_write_bytecode =>
                      /\ files'[v.path].pickle.k = "pickle"
                      /\ files'[v.path].pickle.st_mtime_ns = now
                      /\ files'[v.path].pickle.macroimports = SourceImports(v.path, "macros")
                      /\ files'[v.path].pickle.dialectimports = SourceImports(v.path, "dialects")
                      /\ files'[v.path].pickle.has_relative_macroimports
                           <=> \E n \in 1..Len(listed) : listed[n].level > 0
    ]_vars

\* A call has used the entries of a.py and pk/c.py, whose timestamps matched,
\* and has replaced the entry of pk/b.py, which was saved with another text
\* after its entry was written: the new entry has the new timestamp and says
\* that pk/b.py has a relative import.
C25_Witness ==
  /\ entry = "importer"
  /\ op = "path_xstats"
  /\ ~dont_write_bytecode
  /\ returned.path = "a.py" /\ returned.err = ""
  /\ Len(returned.visited) = 3
  /\ returned.visited[1].path = "a.py" /\ returned.visited[1].cache_valid
  /\ returned.visited[2].path = "pk/b.py" /\ ~returned.visited[2].cache_valid
  /\ returned.visited[3].path = "pk/c.py" /\ returned.visited[3].cache_valid
  /\ files["pk/b.py"].st_mtime_ns > 2
  /\ files["pk/b.py"].pickle.st_mtime_ns = files["pk/b.py"].st_mtime_ns
  /\ files["pk/b.py"].pickle.has_relative_macroimports

\* ------------------------------------------------------------------ C28
\* C28: path_xstats(path) terminates for every finite macro-dependency graph,
\* cyclic ones included: no file is computed again while its own computation
\* is in progress, so no call looks at a file twice and none ends by running
\* out of stack.
C28_NoFileComputedTwice ==
  (entry = "importer" /\ op = "path_xstats") =>
    /\ returned.err # "RecursionError"
    /\ \A i \in 1..Len(returned.visited) : \A j \in 1..Len(returned.visited) :
         i # j => returned.visited[i].path # returned.visited[j].path


\* C26: splice_dialect(body, template) returns the docstring of body, then
\* its top-level __all__ assignment, then the macro-imports of the template,
\* then those of body, then the template with the remaining statements of
\* body at the paste-here marker, in their order; no macro-import comes after
\* that prefix.
Docstring(body) ==
  IF body[1].k = "Expr" /\ body[1].value.k = "Constant" THEN <<body[1]>> ELSE <<>>

AfterDocstring(body) == IF Docstring(body) = <<>> THEN body ELSE Tail(body)

Remaining(body) == MacroImportExtractor(MagicAllExtractor(AfterDocstring(body)).tree).tree

RECURSIVE HasMacroImport(_)
HasMacroImport(body) ==
  \E i \in 1..Len(body) :
    \/ ismacroimport(body[i], "macros")
    \/ body[i].k \in {"With", "FunctionDef", "ClassDef"} /\ HasMacroImport(body[i].body)

SplicedPrefix(body, template) ==
  Docstring(body)
    \o SelectSeq(AfterDocstring(body), ismagicall)
    \o MacroImportExtractor(AtStartOf(template, body[1])).collected
    \o MacroImportExtractor(AfterDocstring(body)).collected

SplicedTemplate(body, template) ==
  StatementSplicer(MacroImportExtractor(AtStartOf(template, body[1])).tree, Remaining(body))

C26_SplicedInOrder ==
  op = "splice_dialect" =>
    /\ err = ""
    /\ tree.body = SplicedPrefix(prev.body, stages[1].body)
                     \o SplicedTemplate(prev.body, stages[1].body)
    /\ ~HasMacroImport(SplicedTemplate(prev.body, stages[1].body))

\* C27: the expand_macros service handed to a macro function expands every
\* invocation in its argument, whatever mode the expander is in when the macro
\* function runs (a one-layer pass and a name macro included); the expand_once
\* service expands one layer and leaves the mode as it found it.
\* The macro functions a visit ran, in order, each with the syntax of its
\* invocation.
MacrosRun(r) == [i \in DOMAIN r.log |-> <<r.log[i].name, r.log[i].syntax>>]

\* Where expanding all of the argument ends, the service runs the same macro
\* functions and returns the same tree, markers aside.
ServesFully(e, B) ==
  ~Failed(Visit(e.tree, TRUE, 0, B)) =>
    /\ ~Failed(kw_expand_macros(e.tree, e.recursive, B).r)
    /\ MacrosRun(kw_expand_macros(e.tree, e.recursive, B).r)
         = MacrosRun(Visit(e.tree, TRUE, 0, B))
    /\ global_postprocess(kw_expand_macros(e.tree, e.recursive, B).r.t)
         = global_postprocess(Visit(e.tree, TRUE, 0, B).t)

ServesOnce(e, B) ==
  /\ kw_expand_once(e.tree, e.recursive, B).r = visit_once(e.tree, B)
  /\ kw_expand_once(e.tree, e.recursive, B).recursive = e.recursive

C27_ServicesExpandAsNamed ==
  op \in {"expand_macros", "visit_once"} =>
    \A i \in DOMAIN log :
      IsAST(log[i].tree) => ServesFully(log[i], bindings) /\ ServesOnce(log[i], bindings)

\* C30: the loop of step_expansion ends on every tree on which expanding all
\* of it ends, a name macro that returns its own identifier included: no
\* round hands back the tree it was given with the collector still reporting
\* the same, since every round after that one would do so again.
C30_EveryStepAdvances ==
  (op = "step_expansion" /\ err = "" /\ ~Failed(expand_macros(prev, bindings))) =>
    ~(tree = prev /\ collected.err = "" /\ collected.collected # {})

====
